---- MODULE Spec2Model ----
(***************************************************************************)
(* Model of the classification pipeline of the GeoAI plugin                *)
(* (src/logic/classify_python_kmeans.py, src/logic/llm_client.py)          *)
(* and of the worker that runs it (src/wizard/classification_wizard.py).   *)
(*                                                                         *)
(* Numbers: coordinates and sizes are integers; index means and            *)
(* confidences are held in hundredths (0.3 is 30, 0.75 is 75).             *)
(* Arrays are held by their shape <<height, width>>; the label arrays of   *)
(* steps A3 and A4 are also held cell by cell.                             *)
(***************************************************************************)
EXTENDS Integers, Sequences, FiniteSets, TLC

VARIABLES
    pc,               \* position in classify_python_kmeans
    raster_layer,     \* the input layer: [extent, width, height]
    roi,              \* the ROI configuration: [type, extent]
    band_mapping,     \* the band codes of the mapping, in the dict's order
    band_i,           \* index of the next band of the resampling loop
    width, height,    \* the locals width and height of resample_bands
    resampled_bands,  \* band code -> [kind, shape]
    reference_layer,  \* resampled_bands['reference_layer']
    features,         \* feature name -> shape
    features_shape,   \* features['shape'], <<>> when the key is absent
    stack,            \* result of prepare_features: [mask_len, valid, shape]
    num_clusters,     \* parameters['num_clusters'] as read at line 64
    labels_reshaped,  \* the raw label grid: [shape, present]
    labels_post,      \* the label grid after step A4: [shape, present]
    post_enabled,     \* parameters['enable_postprocessing'] as read at line 102
    stats,            \* cluster id -> [pixel_count, means]; on label arrays
                      \* cluster id -> [pixel_count, percent_area]
    llm_config,       \* parameters['llm_config']: [enabled, provider]
    llm_result,       \* [is_none, value]: None, or cluster id -> entry
    interp_via,       \* how llm_result was made: "none", "rule", "llm", "fallback"
    response,         \* what the backend did with the request: [kind, text]
    requests,         \* number of HTTP requests sent
    legend,           \* legend.json: cluster id -> [label, color, confidence]
    report,           \* interpretation_report.json: [method, clusters]
    files,            \* the artifacts written to output_dir
    log,              \* set of [level, msg, arg] given to log_callback
    error,            \* the exception that left the pipeline and the step that
                      \* raised it: [stage, kind], or NoError
    finished,         \* the (success, message) pairs emitted by the worker's signal
    valid_mask,       \* prepare_features' valid_mask: sequence of booleans
    kmeans_labels,    \* labels of line 78, the assignments of fit_predict
    target_shape,     \* the shape handed to reshape_labels_safe
    arrays,           \* the label arrays alive: array id -> [shape, cells]
    raw_array,        \* the array labels_reshaped refers to (0: none)
    post_array,       \* the array labels_post refers to (0: none)
    arg,              \* the grid handed to the postprocessing function applied
    min_area_pixels,  \* parameters['min_area_pixels'] as read at line 110
    raw_json,         \* clusters_raw.json: [num_clusters, cluster_sizes, total_pixels]
    tif,              \* raster file name -> [shape, cells] written to it
    runs,             \* the pipeline runs of one process: run -> [pc, i, bands, read]
    temp_files,       \* the files of tempfile.gettempdir(): path -> what was written
    pixels,           \* one pixel of the band arrays: band code -> value
    index_px,         \* the pixel's indices: name -> [num, den], the quotient num / den
    config,           \* the worker's config: [algorithm, add_to_map]
    classification_result  \* what run_classification gave the worker: [returned, layer, llm_result]

inputVars == <<raster_layer, roi, band_mapping>>

resampleVars == <<band_i, width, height, resampled_bands, reference_layer>>

featureVars == <<features, features_shape, stack>>

clusterVars == <<num_clusters, labels_reshaped, labels_post, post_enabled>>

interpVars == <<stats, llm_config, llm_result, interp_via, response, requests>>

outputVars == <<legend, report, files>>

gridVars == <<valid_mask, kmeans_labels, target_shape, arrays, raw_array, post_array, arg,
              min_area_pixels, raw_json, tif>>

runVars == <<runs, temp_files>>

pixelVars == <<pixels, index_px>>

workerVars == <<config, classification_result>>

sideVars == <<runVars, pixelVars, workerVars>>

vars == <<pc, inputVars, resampleVars, featureVars, clusterVars, interpVars, outputVars,
          log, error, finished, gridVars, sideVars>>

----------------------------------------------------------------------------
(* Program constants *)

target_resolution == 10

BandCodes == <<"B2", "B3", "B4", "B8", "B11">>

IndexNames == <<"NDVI", "MNDWI", "NDBI">>

Bands == {BandCodes[i] : i \in 1..Len(BandCodes)}

NoError == [stage |-> "none", kind |-> "none"]

EmptyMap == [x \in {} |-> <<>>]

\* Values of the variables before the step that sets them
NoStack == [mask_len |-> 0, valid |-> 0, shape |-> <<>>]

NoLabels == [shape |-> <<>>, present |-> {}]

NoConfig == [enabled |-> FALSE, provider |-> ""]

None == [is_none |-> TRUE, value |-> EmptyMap]

NoResponse == [kind |-> "none", text |-> <<>>]

NoReport == [method |-> "", clusters |-> EmptyMap]

NoGrid == [shape |-> <<>>, cells |-> <<>>]

NoRawJson == [num_clusters |-> 0, cluster_sizes |-> EmptyMap, total_pixels |-> 0]

NoData == -9999

NoWorkerConfig == [algorithm |-> "", add_to_map |-> FALSE]

\* classification_result before run_classification has returned
NoResult == [returned |-> "unset", layer |-> FALSE, llm_result |-> FALSE]

----------------------------------------------------------------------------
(* Input domains *)

Rect(x0, x1, y0, y1) == [xMinimum |-> x0, xMaximum |-> x1, yMinimum |-> y0, yMaximum |-> y1]

\* Layers: extent 100 x 100 with pixels of size 10 (10 x 10 pixels) or of size 20
\* (5 x 5 pixels), and extent 400 x 100 with pixels of size 20 (20 x 5 pixels).
Layers ==
    { [extent |-> Rect(0, 100, 0, 100), width |-> 10, height |-> 10],
      [extent |-> Rect(0, 100, 0, 100), width |-> 5,  height |-> 5],
      [extent |-> Rect(0, 400, 0, 100), width |-> 20, height |-> 5] }

\* Extents of a rectangle, of a polygon's bounding box, or of a mask layer.
RoiExtents ==
    { Rect(0, 100, 0, 100),     \* the whole layer
      Rect(0, 50, 0, 100),      \* a part of it
      Rect(0, 95, 0, 100),      \* not a multiple of the resolution
      Rect(20, 20, 0, 100),     \* zero width
      Rect(0, 100, 30, 30) }    \* zero height

RoiTypes == {"full", "rectangle", "polygon", "mask", "other"}

Rois ==
    { [type |-> t, extent |-> e] : t \in {"rectangle", "polygon", "mask"}, e \in RoiExtents }
    \cup { [type |-> t, extent |-> Rect(0, 0, 0, 0)] : t \in {"full", "other"} }

\* The subsequence of BandCodes whose codes are in S (step4_bands.py fills the
\* mapping in the order of its standard band list).
RECURSIVE MappingOf(_, _)
MappingOf(S, i) ==
    IF i > Len(BandCodes) THEN <<>>
    ELSE (IF BandCodes[i] \in S THEN <<BandCodes[i]>> ELSE <<>>) \o MappingOf(S, i + 1)

BandMappings == { MappingOf(S, 1) : S \in SUBSET Bands }

----------------------------------------------------------------------------
(* resample_bands *)

\* lines 215-224: the target extent of the ROI
TargetExtent(layer, r) ==
    IF r.type = "full" THEN layer.extent
    ELSE IF r.type \in {"rectangle", "polygon", "mask"} THEN r.extent
    ELSE layer.extent

\* lines 233-234: int((max - min) / target_resolution), max >= min
TargetWidth(extent) == (extent.xMaximum - extent.xMinimum) \div target_resolution

TargetHeight(extent) == (extent.yMaximum - extent.yMinimum) \div target_resolution

\* lines 251-266: gdal:warpreproject is given TARGET_RESOLUTION and TARGET_EXTENT,
\* not width and height; gdalwarp (-tr with -te) sizes its output
\* int((max - min + res / 2) / res) in each direction.
WarpSize(len) == (2 * len + target_resolution) \div (2 * target_resolution)

WarpShape(extent) ==
    << WarpSize(extent.yMaximum - extent.yMinimum), WarpSize(extent.xMaximum - extent.xMinimum) >>

\* GDAL creates no raster with a zero dimension: the call fails there.
WarpCanSucceed(extent) == WarpShape(extent)[1] > 0 /\ WarpShape(extent)[2] > 0

WarpedBand(extent) == [kind |-> "layer", shape |-> WarpShape(extent)]

\* Mutant of DirectBand: width and height are exchanged.
DirectBand_transposed(layer) ==
    [kind |-> "dict", shape |-> <<layer.width, layer.height>>]

\* lines 280-293: provider.block(band_number, extent, width, height) with the
\* layer's own width and height
DirectBand(layer) ==
    [kind |-> "dict", shape |-> <<layer.height, layer.width>>]

WarpOutcomes == {"ok", "raises", "invalid"}

Put(f, k, v) == (k :> v) @@ f

Fail(stage, kind) == [stage |-> stage, kind |-> kind]

\* lines 213-241: the extent, the target size and the empty result
ResampleBegin ==
    /\ pc = "A1_resample"
    /\ pc' = "A1_band"
    /\ band_i' = 1
    /\ width' = TargetWidth(TargetExtent(raster_layer, roi))
    /\ height' = TargetHeight(TargetExtent(raster_layer, roi))
    /\ resampled_bands' = EmptyMap
    /\ log' = log \cup {[level |-> "INFO", msg |-> "Target resolution", arg |-> ""]}
    /\ UNCHANGED <<inputVars, reference_layer, featureVars, clusterVars, interpVars,
                   outputVars, error>>
    /\ UNCHANGED <<finished, gridVars>>
    /\ UNCHANGED sideVars

\* lines 264-273: the warp call gave a valid layer
StoreWarped(bands, code, extent) == Put(bands, code, WarpedBand(extent))

\* Mutant of StoreDirect: the failure is swallowed and no band is stored.
StoreDirect_dropped(bands, code, layer) == bands

\* lines 274-293: the warp call raised or its layer is invalid; the band is
\* read directly from the provider
StoreDirect(bands, code, layer) == Put(bands, code, DirectBand(layer))

FallbackLog(code) ==
    { [level |-> "WARNING", msg |-> "GDAL warp failed", arg |-> code],
      [level |-> "WARNING", msg |-> "Falling back to direct band extraction", arg |-> code] }

\* lines 243-293: one iteration of the loop over band_mapping.items()
ResampleBand(outcome) ==
    /\ pc = "A1_band"
    /\ band_i <= Len(band_mapping)
    /\ LET code == band_mapping[band_i]
           extent == TargetExtent(raster_layer, roi)
       IN  /\ outcome = "ok" => WarpCanSucceed(extent)
           /\ IF outcome = "ok"
              THEN /\ resampled_bands' = StoreWarped(resampled_bands, code, extent)
                   /\ UNCHANGED <<log, width, height>>
              ELSE /\ resampled_bands' = StoreDirect(resampled_bands, code, raster_layer)
                   /\ log' = log \cup FallbackLog(code)
                   /\ width' = raster_layer.width
                   /\ height' = raster_layer.height
    /\ band_i' = band_i + 1
    /\ UNCHANGED <<pc, inputVars, reference_layer, featureVars, clusterVars, interpVars,
                   outputVars, error>>
    /\ UNCHANGED <<finished, gridVars>>
    /\ UNCHANGED sideVars

\* lines 295-302: the reference layer is the first stored band when that is a
\* resampled layer, the original layer otherwise
ReferenceOf(bands, mapping) ==
    IF DOMAIN bands = {} THEN "none"
    ELSE IF bands[mapping[1]].kind = "layer" THEN "resampled"
    ELSE "original"

\* lines 295-304 and 49-52: resample_bands returns; an empty result is an error
ResampleEnd ==
    /\ pc = "A1_band"
    /\ band_i > Len(band_mapping)
    /\ reference_layer' = ReferenceOf(resampled_bands, band_mapping)
    /\ IF DOMAIN resampled_bands = {}
       THEN /\ pc' = "failed"
            /\ error' = Fail("resampling", "ValueError")
            /\ log' = log \cup {[level |-> "ERROR", msg |-> "Classification error", arg |-> "resampling"]}
       ELSE /\ pc' = "A2_features"
            /\ UNCHANGED <<error, log>>
    /\ UNCHANGED <<inputVars, band_i, width, height, resampled_bands, featureVars,
                   clusterVars, interpVars, outputVars>>
    /\ UNCHANGED <<finished, gridVars>>
    /\ UNCHANGED sideVars

----------------------------------------------------------------------------
(* calculate_features *)

Max(a, b) == IF a >= b THEN a ELSE b

\* numpy broadcasting of two 2-D shapes: each dimension equal, or one of them 1
Broadcastable(s, t) == \A d \in 1..2 : s[d] = t[d] \/ s[d] = 1 \/ t[d] = 1

BroadcastShape(s, t) ==
    [d \in 1..2 |-> IF s[d] = 1 THEN t[d] ELSE IF t[d] = 1 THEN s[d] ELSE Max(s[d], t[d])]

\* np.divide(a - b, a + b + 1e-10, out=np.zeros_like(a), where=(a + b) != 0):
\* a and b must broadcast, and out (of a's shape) must have the broadcast shape
DivideOk(a, b) == Broadcastable(a, b) /\ BroadcastShape(a, b) = a

\* lines 353-387: the two bands of each index, the first one shaping the output
IndexBands(name) ==
    CASE name = "NDVI"  -> <<"B8", "B4">>
      [] name = "MNDWI" -> <<"B3", "B11">>
      [] name = "NDBI"  -> <<"B11", "B8">>

Indices == {IndexNames[i] : i \in 1..Len(IndexNames)}

\* lines 354, 366, 378: both bands of the index were extracted
IndexWanted(bands, name) ==
    IndexBands(name)[1] \in DOMAIN bands /\ IndexBands(name)[2] \in DOMAIN bands

\* the np.divide calls that raise ValueError on these bands
IndexRaises(bands, name) ==
    /\ IndexWanted(bands, name)
    /\ ~DivideOk(bands[IndexBands(name)[1]].shape, bands[IndexBands(name)[2]].shape)

\* lines 335-387: the bands present and the indices whose two bands are present
FeatureArrays(bands) ==
    [n \in (DOMAIN bands) \cup {x \in Indices : IndexWanted(bands, x)} |->
        IF n \in Indices THEN bands[IndexBands(n)[1]].shape ELSE bands[n].shape]

\* lines 389-395: features['shape'] is set from B2, else B3, else B4
FeatureShape(bands) ==
    IF "B2" \in DOMAIN bands THEN bands["B2"].shape
    ELSE IF "B3" \in DOMAIN bands THEN bands["B3"].shape
    ELSE IF "B4" \in DOMAIN bands THEN bands["B4"].shape
    ELSE <<>>

\* lines 54-58 and 312-397, with the handler of lines 187-194
CalculateFeatures ==
    /\ pc = "A2_features"
    /\ IF \E n \in Indices : IndexRaises(resampled_bands, n)
       THEN /\ pc' = "failed"
            /\ error' = Fail("features", "ValueError")
            /\ log' = log \cup {[level |-> "ERROR", msg |-> "Classification error", arg |-> "features"]}
            /\ UNCHANGED <<features, features_shape>>
       ELSE /\ pc' = "A3_prepare"
            /\ features' = FeatureArrays(resampled_bands)
            /\ features_shape' = FeatureShape(resampled_bands)
            /\ UNCHANGED <<error, log>>
    /\ UNCHANGED <<inputVars, resampleVars, stack, clusterVars, interpVars, outputVars>>
    /\ UNCHANGED <<finished, gridVars>>
    /\ UNCHANGED sideVars

----------------------------------------------------------------------------
(* prepare_features *)

Size(shape) == shape[1] * shape[2]

\* line 421: np.column_stack needs at least one column, all of one length
StackOk(f) ==
    /\ DOMAIN f # {}
    /\ \A a, b \in DOMAIN f : Size(f[a]) = Size(f[b])

StackLen(f) == Size(f[CHOOSE n \in DOMAIN f : TRUE])

\* line 424: the number of rows with only finite values, out of n
ValidCounts(n) == {v \in {0, 1, n - 1, n} : 0 <= v /\ v <= n}

\* line 434: features.get('shape', (X.shape[0], 1))
StackShape(fshape, valid) == IF fshape # <<>> THEN fshape ELSE <<valid, 1>>

\* lines 68 and 400-436, with the handler of lines 187-194; StandardScaler
\* raises on a matrix without rows
PrepareFeatures ==
    /\ pc = "A3_prepare"
    /\ \/ /\ ~StackOk(features)
          /\ pc' = "failed"
          /\ error' = Fail("clustering", "ValueError")
          /\ log' = log \cup {[level |-> "ERROR", msg |-> "Classification error", arg |-> "clustering"]}
          /\ UNCHANGED stack
       \/ /\ StackOk(features)
          /\ \E valid \in ValidCounts(StackLen(features)) :
                IF valid = 0
                THEN /\ pc' = "failed"
                     /\ error' = Fail("clustering", "ValueError")
                     /\ log' = log \cup {[level |-> "ERROR", msg |-> "Classification error", arg |-> "clustering"]}
                     /\ UNCHANGED stack
                ELSE /\ pc' = "A3_kmeans"
                     /\ stack' = [mask_len |-> StackLen(features), valid |-> valid,
                                  shape |-> StackShape(features_shape, valid)]
                     /\ UNCHANGED <<error, log>>
    /\ UNCHANGED <<inputVars, resampleVars, features, features_shape, clusterVars,
                   interpVars, outputVars>>
    /\ UNCHANGED <<finished, gridVars>>
    /\ UNCHANGED sideVars

----------------------------------------------------------------------------
(* K-means, label grid, raster output *)

ErrorLog(stage) == [level |-> "ERROR", msg |-> "Classification error", arg |-> stage]

\* The grid of the reference layer: the first resampled layer, or the input layer
ReferenceShape(ref, bands, mapping, layer) ==
    IF ref = "resampled" THEN bands[mapping[1]].shape ELSE <<layer.height, layer.width>>

\* lines 739-805: create_output_raster makes a raster of the reference layer's
\* size; WriteArray raises when the array is larger than that raster, and the
\* driver can fail on the file (io_ok)
RasterWritten(shape, ref, io_ok) == io_ok /\ shape[1] <= ref[1] /\ shape[2] <= ref[2]

\* lines 441-469: the grid has the given shape. When the shape holds fewer
\* pixels than valid_mask has entries the mask is cut; the assignment of line
\* 468 then raises unless every valid pixel lies in the part kept (tail_ok).
ReshapeOk(st, tail_ok) == Size(st.shape) >= st.mask_len \/ tail_ok

ReshapeWarns(st) == Size(st.shape) # st.mask_len

\* lines 64-99: KMeans.fit_predict raises with fewer rows than clusters;
\* present is the set of cluster ids among the assignments
Cluster(k, present, tail_ok, io_ok) ==
    /\ pc = "A3_kmeans"
    /\ num_clusters' = k
    /\ present \subseteq 0..(k - 1)
    /\ present # {}
    /\ Cardinality(present) <= stack.valid
    /\ IF stack.valid < k \/ ~ReshapeOk(stack, tail_ok)
       THEN /\ pc' = "failed"
            /\ error' = Fail("clustering", "ValueError")
            /\ log' = log \cup {ErrorLog("clustering")}
            /\ UNCHANGED <<labels_reshaped, files>>
       ELSE /\ labels_reshaped' = [shape |-> stack.shape, present |-> present]
            /\ IF RasterWritten(stack.shape,
                                ReferenceShape(reference_layer, resampled_bands, band_mapping, raster_layer),
                                io_ok)
               THEN /\ pc' = "A4_postprocess"
                    /\ files' = files \cup {"clusters_raw.tif", "clusters_raw.json"}
                    /\ log' = log \cup (IF ReshapeWarns(stack)
                                        THEN {[level |-> "WARNING", msg |-> "Shape mismatch", arg |-> ""]}
                                        ELSE {})
                    /\ UNCHANGED error
               ELSE /\ pc' = "failed"
                    /\ error' = Fail("clustering", "RasterWriteFailure")
                    /\ log' = log \cup {ErrorLog("clustering")}
                    /\ UNCHANGED files
    /\ UNCHANGED <<inputVars, resampleVars, featureVars, labels_post, post_enabled,
                   interpVars, legend, report>>
    /\ UNCHANGED <<finished, gridVars>>
    /\ UNCHANGED sideVars

\* Mutant of PostArtifacts: clusters_post.tif is written in every run.
PostArtifacts_always(enable_postprocessing) == {"clusters_post.tif"}

\* lines 104 and 113-114: clusters_post.tif is written inside the branch of
\* enable_postprocessing
PostArtifacts(enable_postprocessing) ==
    IF enable_postprocessing THEN {"clusters_post.tif"} ELSE {}

\* lines 101-120: the majority filter and the removal of small regions add no
\* cluster id; kept is the set of ids left in the grid
Postprocess(enable_postprocessing, kept, io_ok) ==
    /\ pc = "A4_postprocess"
    /\ post_enabled' = enable_postprocessing
    /\ kept \subseteq labels_reshaped.present
    /\ IF enable_postprocessing
       THEN /\ labels_post' = [shape |-> labels_reshaped.shape, present |-> kept]
            /\ IF RasterWritten(labels_reshaped.shape,
                                ReferenceShape(reference_layer, resampled_bands, band_mapping, raster_layer),
                                io_ok)
               THEN /\ pc' = "A5_statistics"
                    /\ files' = files \cup PostArtifacts(enable_postprocessing)
                    /\ UNCHANGED <<error, log>>
               ELSE /\ pc' = "failed"
                    /\ error' = Fail("postprocessing", "RasterWriteFailure")
                    /\ log' = log \cup {ErrorLog("postprocessing")}
                    /\ UNCHANGED files
       ELSE /\ kept = labels_reshaped.present
            /\ io_ok
            /\ labels_post' = labels_reshaped
            /\ pc' = "A5_statistics"
            /\ files' = files \cup PostArtifacts(enable_postprocessing)
            /\ UNCHANGED <<error, log>>
    /\ UNCHANGED <<inputVars, resampleVars, featureVars, num_clusters, labels_reshaped,
                   interpVars, legend, report>>
    /\ UNCHANGED <<finished, gridVars>>
    /\ UNCHANGED sideVars

----------------------------------------------------------------------------
(* calculate_cluster_statistics *)

\* lines 550-559: the means of the indices whose grid has the labels' shape
StatNames(f, shape) == {n \in Indices \cap DOMAIN f : f[n] = shape}

Restrict(m, D) == [n \in D |-> m[n]]

\* lines 532-563: an entry for every cluster id with a pixel in the grid, the
\* pixel counts and means being those of the pixel values (counts, means)
calculate_cluster_statistics(labels, f, counts, means) ==
    [c \in labels.present |->
        [pixel_count |-> counts[c], means |-> Restrict(means[c], StatNames(f, labels.shape))]]

RECURSIVE Sum(_, _)
Sum(f, S) == IF S = {} THEN 0 ELSE LET c == CHOOSE x \in S : TRUE IN f[c] + Sum(f, S \ {c})

\* lines 122-135
Statistics(counts, means, io_ok) ==
    /\ pc = "A5_statistics"
    /\ DOMAIN counts = labels_post.present
    /\ DOMAIN means = labels_post.present
    /\ Sum(counts, DOMAIN counts) <= stack.valid
    /\ stats' = calculate_cluster_statistics(labels_post, features, counts, means)
    /\ IF io_ok
       THEN /\ pc' = "A6_interpret"
            /\ files' = files \cup {"clusters_stats.json"}
            /\ UNCHANGED <<error, log>>
       ELSE /\ pc' = "failed"
            /\ error' = Fail("statistics", "IOError")
            /\ log' = log \cup {ErrorLog("statistics")}
            /\ UNCHANGED files
    /\ UNCHANGED <<inputVars, resampleVars, featureVars, clusterVars, llm_config, llm_result,
                   interp_via, response, requests, legend, report>>
    /\ UNCHANGED <<finished, gridVars>>
    /\ UNCHANGED sideVars

----------------------------------------------------------------------------
(* rule_based_interpretation *)

\* An interpretation entry. kind is "obj" for a JSON object and "str" for any
\* other JSON value; has names the keys the object holds.
Entry(label, confidence, text, v1, v2) ==
    [kind |-> "obj", has |-> {"label", "confidence", "rationale"}, label |-> label,
     confidence |-> confidence, rationale |-> [text |-> text, v1 |-> v1, v2 |-> v2]]

\* cluster_stats.get('mean_<name>', 0.0)
MeanOf(cluster_stats, name) ==
    IF name \in DOMAIN cluster_stats.means THEN cluster_stats.means[name] ELSE 0

\* Mutant of RuleFor: the Grassland rule is tried before the Water rule.
RuleFor_grass_first(cluster_stats) ==
    LET mean_mndwi == MeanOf(cluster_stats, "MNDWI")
        mean_ndvi  == MeanOf(cluster_stats, "NDVI")
        mean_ndbi  == MeanOf(cluster_stats, "NDBI")
    IN  IF 30 <= mean_ndvi /\ mean_ndvi <= 60
        THEN Entry("Grassland", 70, "NDVI 0.3-0.6 indicates grassland", mean_ndvi, 0)
        ELSE IF mean_mndwi > 30
        THEN Entry("Water", 80, "MNDWI > 0.3 indicates water", mean_mndwi, 0)
        ELSE IF mean_ndvi > 60
        THEN Entry("Forest", 75, "NDVI > 0.6 indicates dense vegetation", mean_ndvi, 0)
        ELSE IF mean_ndbi > 20
        THEN Entry("Built-up", 75, "NDBI > 0.2 indicates built-up areas", mean_ndbi, 0)
        ELSE IF mean_ndvi < 10 /\ mean_mndwi < 0
        THEN Entry("Bare soil/rock", 70, "Low NDVI and negative MNDWI", mean_ndvi, mean_mndwi)
        ELSE Entry("Unknown", 50, "Does not match clear land cover patterns", 0, 0)

\* lines 626-660: the rules of one cluster, means in hundredths
RuleFor(cluster_stats) ==
    LET mean_mndwi == MeanOf(cluster_stats, "MNDWI")
        mean_ndvi  == MeanOf(cluster_stats, "NDVI")
        mean_ndbi  == MeanOf(cluster_stats, "NDBI")
    IN  IF mean_mndwi > 30
        THEN Entry("Water", 80, "MNDWI > 0.3 indicates water", mean_mndwi, 0)
        ELSE IF mean_ndvi > 60
        THEN Entry("Forest", 75, "NDVI > 0.6 indicates dense vegetation", mean_ndvi, 0)
        ELSE IF 30 <= mean_ndvi /\ mean_ndvi <= 60
        THEN Entry("Grassland", 70, "NDVI 0.3-0.6 indicates grassland", mean_ndvi, 0)
        ELSE IF mean_ndbi > 20
        THEN Entry("Built-up", 75, "NDBI > 0.2 indicates built-up areas", mean_ndbi, 0)
        ELSE IF mean_ndvi < 10 /\ mean_mndwi < 0
        THEN Entry("Bare soil/rock", 70, "Low NDVI and negative MNDWI", mean_ndvi, mean_mndwi)
        ELSE Entry("Unknown", 50, "Does not match clear land cover patterns", 0, 0)

\* lines 616-662: one entry per key of stats
rule_based_interpretation(st) == [c \in DOMAIN st |-> RuleFor(st[c])]

----------------------------------------------------------------------------
(* The response text of the remote backend, as a sequence of tokens:         *)
(*   "{" "}" ","   braces and comma                                          *)
(*   "w"           prose without braces                                      *)
(*   "k0" "k1"     the keys "cluster_0": and "cluster_1":                    *)
(*   "lWater" "lDesert" "c90" "c150" "r"   the members "label": "Water",     *)
(*                 "label": "Desert", "confidence": 0.9, "confidence": 1.5   *)
(*                 and "rationale": "..."                                    *)
(*   "sWater"      the JSON string "Water"                                   *)
(*   "q0"          the key 'cluster_0': in single quotes                     *)

KeyTokens == {"k0", "k1"}

KeyId(tok) == IF tok = "k0" THEN 0 ELSE 1

MemberTokens == {"lWater", "lDesert", "c90", "c150", "r"}

AtomTokens == {"sWater"}

NoRationale == [text |-> "", v1 |-> 0, v2 |-> 0]

EmptyObject == [kind |-> "obj", has |-> {}, label |-> "", confidence |-> 0, rationale |-> NoRationale]

StringValue == [kind |-> "str", has |-> {}, label |-> "", confidence |-> 0, rationale |-> NoRationale]

AddMember(e, tok) ==
    CASE tok = "lWater"  -> [e EXCEPT !.has = @ \cup {"label"}, !.label = "Water"]
      [] tok = "lDesert" -> [e EXCEPT !.has = @ \cup {"label"}, !.label = "Desert"]
      [] tok = "c90"     -> [e EXCEPT !.has = @ \cup {"confidence"}, !.confidence = 90]
      [] tok = "c150"    -> [e EXCEPT !.has = @ \cup {"confidence"}, !.confidence = 150]
      [] tok = "r"       -> [e EXCEPT !.has = @ \cup {"rationale"},
                                      !.rationale = [text |-> "r", v1 |-> 0, v2 |-> 0]]

\* json.loads on the members of an inner object, from token i; st is "first"
\* (after the brace), "member" (after a member) or "comma" (after a comma)
RECURSIVE ParseMembers(_, _, _, _)
ParseMembers(s, i, st, e) ==
    IF i > Len(s) THEN [ok |-> FALSE, next |-> 0, val |-> e]
    ELSE IF s[i] = "}" /\ st \in {"first", "member"} THEN [ok |-> TRUE, next |-> i + 1, val |-> e]
    ELSE IF s[i] \in MemberTokens /\ st \in {"first", "comma"}
         THEN ParseMembers(s, i + 1, "member", AddMember(e, s[i]))
    ELSE IF s[i] = "," /\ st = "member" THEN ParseMembers(s, i + 1, "comma", e)
    ELSE [ok |-> FALSE, next |-> 0, val |-> e]

\* json.loads on the pairs of the outer object, from token i; a later pair of
\* the same key replaces the earlier one
RECURSIVE ParsePairs(_, _, _, _)
ParsePairs(s, i, st, m) ==
    IF i > Len(s) THEN [ok |-> FALSE, next |-> 0, val |-> m]
    ELSE IF s[i] = "}" /\ st \in {"first", "pair"} THEN [ok |-> TRUE, next |-> i + 1, val |-> m]
    ELSE IF s[i] = "," /\ st = "pair" THEN ParsePairs(s, i + 1, "comma", m)
    ELSE IF s[i] \in KeyTokens /\ st \in {"first", "comma"} /\ i + 1 <= Len(s)
         THEN IF s[i + 1] \in AtomTokens
              THEN ParsePairs(s, i + 2, "pair", Put(m, KeyId(s[i]), StringValue))
              ELSE IF s[i + 1] = "{"
              THEN LET r == ParseMembers(s, i + 2, "first", EmptyObject)
                   IN  IF r.ok THEN ParsePairs(s, r.next, "pair", Put(m, KeyId(s[i]), r.val))
                       ELSE [ok |-> FALSE, next |-> 0, val |-> m]
              ELSE [ok |-> FALSE, next |-> 0, val |-> m]
    ELSE [ok |-> FALSE, next |-> 0, val |-> m]

\* json.loads on a text that starts with a brace; ok is FALSE where it raises
JsonLoads(s) ==
    LET r == IF Len(s) >= 1 /\ s[1] = "{" THEN ParsePairs(s, 2, "first", EmptyMap)
             ELSE [ok |-> FALSE, next |-> 0, val |-> EmptyMap]
    IN  [ok |-> r.ok /\ r.next = Len(s) + 1, val |-> r.val]

Min(S) == CHOOSE x \in S : \A y \in S : x <= y

MaxOf(S) == CHOOSE x \in S : \A y \in S : x >= y

Opens(s) == {i \in 1..Len(s) : s[i] = "{"}

\* line 598: re.search(r'\{.*\}', response, re.DOTALL): greedy, from the first
\* opening brace to the last closing brace after it
RegexMatches(s) == Opens(s) # {} /\ \E j \in 1..Len(s) : j > Min(Opens(s)) /\ s[j] = "}"

RegexGroup(s) ==
    SubSeq(s, Min(Opens(s)), MaxOf({j \in 1..Len(s) : j > Min(Opens(s)) /\ s[j] = "}"}))

\* llm_prompt.py lines 92-102: a comma before a closing brace is removed and
\* single quotes around a key become double quotes
RECURSIVE fix_json(_)
fix_json(s) ==
    IF s = <<>> THEN <<>>
    ELSE IF s[1] = "," /\ Len(s) >= 2 /\ s[2] = "}" THEN fix_json(Tail(s))
    ELSE <<IF s[1] = "q0" THEN "k0" ELSE s[1]>> \o fix_json(Tail(s))

----------------------------------------------------------------------------
(* LLMClient.generate and interpret_clusters_with_llm *)

KnownProviders == {"ollama", "openrouter", "gemini"}

\* Mutant of generate: a request that failed is sent a second time.
generate_retried(provider, remote) ==
    IF provider \notin KnownProviders THEN [raised |-> TRUE, text |-> <<>>, sent |-> 0]
    ELSE IF remote.kind # "text" THEN [raised |-> TRUE, text |-> <<>>, sent |-> 2]
    ELSE [raised |-> FALSE, text |-> remote.text, sent |-> 1]

\* llm_client.py lines 43-50 and 67-74 (115-128, 148-163): an unknown provider
\* raises before any request; a request that fails or times out raises; else
\* the text of the response is returned
generate(provider, remote) ==
    IF provider \notin KnownProviders THEN [raised |-> TRUE, text |-> <<>>, sent |-> 0]
    ELSE IF remote.kind # "text" THEN [raised |-> TRUE, text |-> <<>>, sent |-> 1]
    ELSE [raised |-> FALSE, text |-> remote.text, sent |-> 1]

Fallback(st, msg, sent, seen) ==
    [value |-> rule_based_interpretation(st), via |-> "fallback", sent |-> sent, seen |-> seen,
     logs |-> {[level |-> "WARNING", msg |-> msg, arg |-> ""]}]

\* lines 566-613
interpret_clusters_with_llm(st, cfg, remote) ==
    IF ~cfg.enabled
    THEN [value |-> rule_based_interpretation(st), via |-> "rule", sent |-> 0, seen |-> NoResponse,
          logs |-> {[level |-> "INFO", msg |-> "LLM interpretation disabled", arg |-> ""]}]
    ELSE LET g == generate(cfg.provider, remote)
             seen == IF g.sent = 0 THEN NoResponse ELSE remote
         IN  IF g.raised THEN Fallback(st, "LLM error", g.sent, seen)
             ELSE IF g.text # <<>> /\ RegexMatches(g.text)
             THEN LET j == JsonLoads(RegexGroup(g.text))
                  IN  IF j.ok
                      THEN [value |-> j.val, via |-> "llm", sent |-> g.sent, seen |-> seen,
                            logs |-> {[level |-> "INFO", msg |-> "LLM interpretation successful", arg |-> ""]}]
                      ELSE Fallback(st, "LLM error", g.sent, seen)
             ELSE Fallback(st, "LLM interpretation failed", g.sent, seen)

\* lines 137-147: step A6 of classify_python_kmeans
Interpret(enable_llm, cfg, remote) ==
    /\ pc = "A6_interpret"
    /\ pc' = "A7_assemble"
    /\ llm_config' = cfg
    /\ IF enable_llm
       THEN LET r == interpret_clusters_with_llm(stats, cfg, remote)
            IN  /\ llm_result' = [is_none |-> FALSE, value |-> r.value]
                /\ interp_via' = r.via
                /\ response' = r.seen
                /\ requests' = requests + r.sent
                /\ log' = log \cup r.logs
       ELSE /\ llm_result' = None
            /\ interp_via' = "none"
            /\ UNCHANGED <<response, requests, log>>
    /\ UNCHANGED <<inputVars, resampleVars, featureVars, clusterVars, stats, outputVars, error>>
    /\ UNCHANGED <<finished, gridVars>>
    /\ UNCHANGED sideVars

----------------------------------------------------------------------------
(* create_interpreted_layer *)

\* lines 723-736
get_color_for_label(label) ==
    CASE label = "Water" -> "#0066CC"
      [] label = "Forest" -> "#00CC00"
      [] label = "Grassland" -> "#90EE90"
      [] label = "Cropland" -> "#FFD700"
      [] label = "Built-up" -> "#808080"
      [] label = "Bare soil/rock" -> "#D2691E"
      [] label = "Wetland" -> "#008B8B"
      [] label = "Shadow" -> "#000000"
      [] label = "Unknown" -> "#FF00FF"
      [] OTHER -> "#808080"

\* f'Cluster {cluster_id}'
ClusterName(id) ==
    CASE id = 0 -> "Cluster 0" [] id = 1 -> "Cluster 1" [] id = 2 -> "Cluster 2"
      [] OTHER -> "Cluster n"

\* lines 667-670: None and the empty mapping both become {}
Effective(result) == IF result.is_none THEN EmptyMap ELSE result.value

\* line 676: range(np.max(labels) + 1); the maximum is -9999 without a label
LegendIds(labels) == IF labels.present = {} THEN {} ELSE 0..MaxOf(labels.present)

\* lines 679 and 686: .get on an entry that is no JSON object raises AttributeError
AssembleRaises(labels, result) ==
    \E id \in LegendIds(labels) \cap DOMAIN Effective(result) : Effective(result)[id].kind # "obj"

\* lines 676-694
LegendOf(labels, result) ==
    [id \in LegendIds(labels) |->
        IF id \in DOMAIN Effective(result)
        THEN LET e == Effective(result)[id]
                 label == IF "label" \in e.has THEN e.label ELSE ClusterName(id)
             IN  [label |-> label, color |-> get_color_for_label(label),
                  confidence |-> IF "confidence" \in e.has THEN e.confidence ELSE 50]
        ELSE [label |-> ClusterName(id), color |-> "#808080", confidence |-> 50]]

\* lines 704-709
ReportOf(result) ==
    [method |-> IF Effective(result) # EmptyMap THEN "LLM" ELSE "Rule-based",
     clusters |-> Effective(result)]

\* lines 149-185: step A7 and the return of the result
Assemble(io_ok) ==
    /\ pc = "A7_assemble"
    /\ IF AssembleRaises(labels_post, llm_result)
       THEN /\ io_ok
            /\ pc' = "failed"
            /\ error' = Fail("assembly", "AttributeError")
            /\ log' = log \cup {ErrorLog("assembly")}
            /\ UNCHANGED <<legend, report, files>>
       ELSE IF RasterWritten(labels_post.shape,
                             ReferenceShape(reference_layer, resampled_bands, band_mapping, raster_layer),
                             io_ok)
       THEN /\ pc' = "done"
            /\ legend' = LegendOf(labels_post, llm_result)
            /\ report' = ReportOf(llm_result)
            /\ files' = files \cup {"interpreted_layer.tif", "interpretation_report.json", "legend.json"}
            /\ log' = log \cup (IF Effective(llm_result) = EmptyMap
                                THEN {[level |-> "WARNING", msg |-> "No LLM result", arg |-> ""]}
                                ELSE {})
            /\ UNCHANGED error
       ELSE /\ pc' = "failed"
            /\ error' = Fail("assembly", "RasterWriteFailure")
            /\ log' = log \cup {ErrorLog("assembly")}
            /\ UNCHANGED <<legend, report, files>>
    /\ UNCHANGED <<inputVars, resampleVars, featureVars, clusterVars, interpVars>>
    /\ UNCHANGED <<finished, gridVars>>
    /\ UNCHANGED sideVars

----------------------------------------------------------------------------
(* Label arrays, cell by cell: a grid is [shape, cells], cells in row-major   *)
(* order                                                                     *)

TrueCount(mask) == Cardinality({i \in 1..Len(mask) : mask[i]})

\* The number of True entries of mask up to position i
Rank(mask, i) == Cardinality({j \in 1..i : mask[j]})

Padded(seq, n, v) == seq \o [i \in 1..(n - Len(seq)) |-> v]

\* lines 448-457: valid_mask cut or padded with False to total_pixels entries
AdjustedMask(mask, total) ==
    IF Len(mask) > total THEN SubSeq(mask, 1, total) ELSE Padded(mask, total, FALSE)

\* lines 462-466: labels cut or padded with -9999 to valid_count entries
FittedLabels(lbls, valid_count) ==
    IF Len(lbls) > valid_count THEN SubSeq(lbls, 1, valid_count)
    ELSE Padded(lbls, valid_count, NoData)

\* line 468: a boolean-mask assignment of n values to t True positions raises
\* ValueError unless n = t or the single value is broadcast
MaskAssignRaises(n, t) == n # t /\ n # 1

\* lines 439-471
reshape_labels_safe(lbls, shp, mask) ==
    LET total_pixels == shp[1] * shp[2]
        valid_count == TrueCount(mask)
        m == IF total_pixels # Len(mask) THEN AdjustedMask(mask, total_pixels) ELSE mask
        l == FittedLabels(lbls, valid_count)
    IN  [raised |-> MaskAssignRaises(Len(l), TrueCount(m)),
         warned |-> total_pixels # Len(mask),
         grid |-> [shape |-> shp,
                   cells |-> [i \in 1..total_pixels |->
                                 IF ~m[i] THEN NoData
                                 ELSE IF Len(l) = 1 THEN l[1]
                                 ELSE IF Rank(m, i) <= Len(l) THEN l[Rank(m, i)]
                                 ELSE NoData]]]

\* Mutant of calculate_cluster_sizes: the last cluster id is left out.
calculate_cluster_sizes_short(lbls, k) ==
    [i \in 0..(k - 2) |-> Cardinality({j \in 1..Len(lbls) : lbls[j] = i})]

\* lines 808-813
calculate_cluster_sizes(lbls, k) ==
    [i \in 0..(k - 1) |-> Cardinality({j \in 1..Len(lbls) : lbls[j] = i})]

----------------------------------------------------------------------------
(* apply_majority_filter and remove_small_clusters *)

Rows(g) == g.shape[1]

Cols(g) == g.shape[2]

RowOf(g, i) == (i - 1) \div Cols(g)

ColOf(g, i) == (i - 1) % Cols(g)

Cells(g) == 1..Len(g.cells)

\* Mutant of At: positions outside the grid wrap around to the other side.
At_wrapped(g, r, c) == g.cells[(r % Rows(g)) * Cols(g) + (c % Cols(g)) + 1]

\* lines 490-496: generic_filter with mode='constant', cval=-9999: a position
\* outside the grid reads as -9999
At(g, r, c) ==
    IF 0 <= r /\ r < Rows(g) /\ 0 <= c /\ c < Cols(g)
    THEN g.cells[r * Cols(g) + c + 1]
    ELSE NoData

\* size=3: the 3 x 3 window
Offsets == {-1, 0, 1} \X {-1, 0, 1}

\* line 484: the values of the window that are not -9999
WindowLabels(g, r, c) == {At(g, r + d[1], c + d[2]) : d \in Offsets} \ {NoData}

WindowCount(g, r, c, v) == Cardinality({d \in Offsets : At(g, r + d[1], c + d[2]) = v})

\* Mutant of majority_filter_func: the vote is taken over the whole grid.
majority_filter_func_global(g, r, c) ==
    LET L == {g.cells[i] : i \in Cells(g)} \ {NoData}
    IN  IF L = {} THEN NoData ELSE Min(L)

\* lines 482-487: scipy.stats.mode gives the smallest of the most frequent values
majority_filter_func(g, r, c) ==
    LET L == WindowLabels(g, r, c)
    IN  IF L = {} THEN NoData
        ELSE Min({v \in L : \A u \in L : WindowCount(g, r, c, v) >= WindowCount(g, r, c, u)})

\* lines 474-498
apply_majority_filter(g) ==
    [shape |-> g.shape,
     cells |-> [i \in Cells(g) |-> majority_filter_func(g, RowOf(g, i), ColOf(g, i))]]

\* line 486: mode(valid_values)[0][0] needs mode to return arrays; where the
\* installed scipy returns scalars for 1-D input the second index raises
\* IndexError in the first window that holds a label
FilterRaises(g, mode_arrays) == ~mode_arrays /\ \E i \in Cells(g) : g.cells[i] # NoData

\* line 507: scipy.ndimage.label with its default structure joins the four
\* edge neighbours
Adjacent(g, i, j) ==
    \/ RowOf(g, i) = RowOf(g, j) /\ (ColOf(g, i) - ColOf(g, j)) \in {-1, 1}
    \/ ColOf(g, i) = ColOf(g, j) /\ (RowOf(g, i) - RowOf(g, j)) \in {-1, 1}

\* line 507: labels != -9999
Labeled(g) == {i \in Cells(g) : g.cells[i] # NoData}

RECURSIVE Grow(_, _)
Grow(g, S) ==
    LET T == S \cup {j \in Labeled(g) : \E i \in S : Adjacent(g, i, j)}
    IN  IF T = S THEN S ELSE Grow(g, T)

\* lines 507-518: the connected component of a labeled cell
Component(g, i) == Grow(g, {i})

\* Mutant of remove_small_clusters: a component of exactly min_area is removed too.
remove_small_clusters_inclusive(g, min_area) ==
    [shape |-> g.shape,
     cells |-> [i \in Cells(g) |->
                  IF i \in Labeled(g) /\ Cardinality(Component(g, i)) <= min_area
                  THEN NoData ELSE g.cells[i]]]

\* lines 501-529: the array after the loop
remove_small_clusters(g, min_area) ==
    [shape |-> g.shape,
     cells |-> [i \in Cells(g) |->
                  IF i \in Labeled(g) /\ Cardinality(Component(g, i)) < min_area
                  THEN NoData ELSE g.cells[i]]]

----------------------------------------------------------------------------
(* Steps A3 and A4 of classify_python_kmeans on label arrays *)

\* lines 64-78: KMeans.fit_predict raises with fewer rows than clusters, else
\* gives every row of X one of the ids 0..k-1
FitPredict(k) ==
    /\ pc = "A3_kmeans"
    /\ num_clusters' = k
    /\ IF stack.valid < k
       THEN /\ pc' = "failed"
            /\ error' = Fail("clustering", "ValueError")
            /\ log' = log \cup {ErrorLog("clustering")}
            /\ UNCHANGED kmeans_labels
       ELSE /\ pc' = "A3_reshape"
            /\ \E lbls \in [1..stack.valid -> 0..(k - 1)] : kmeans_labels' = lbls
            /\ UNCHANGED <<error, log>>
    /\ UNCHANGED <<inputVars, resampleVars, featureVars, labels_reshaped, labels_post,
                   post_enabled, interpVars, outputVars, finished, valid_mask, target_shape,
                   arrays, raw_array, post_array, arg, min_area_pixels, raw_json, tif>>
    /\ UNCHANGED sideVars

\* lines 88-93
RawJson(lbls, k, mask) ==
    [num_clusters |-> k, cluster_sizes |-> calculate_cluster_sizes(lbls, k),
     total_pixels |-> TrueCount(mask)]

\* line 450
ReshapeLog(r) ==
    IF r.warned THEN {[level |-> "WARNING", msg |-> "Shape mismatch", arg |-> ""]} ELSE {}

\* lines 81-99: the raw grid, clusters_raw.tif and clusters_raw.json
ReshapeAndSave(io_ok) ==
    /\ pc = "A3_reshape"
    /\ target_shape' = stack.shape
    /\ LET r == reshape_labels_safe(kmeans_labels, stack.shape, valid_mask)
       IN  IF r.raised
           THEN /\ io_ok
                /\ pc' = "failed"
                /\ error' = Fail("clustering", "ValueError")
                /\ log' = log \cup ReshapeLog(r) \cup {ErrorLog("clustering")}
                /\ UNCHANGED <<arrays, raw_array, tif, raw_json, files>>
           ELSE /\ arrays' = (1 :> r.grid)
                /\ raw_array' = 1
                /\ IF io_ok
                   THEN /\ pc' = "A4_postprocess"
                        /\ tif' = ("clusters_raw.tif" :> r.grid)
                        /\ raw_json' = RawJson(kmeans_labels, num_clusters, valid_mask)
                        /\ files' = files \cup {"clusters_raw.tif", "clusters_raw.json"}
                        /\ log' = log \cup ReshapeLog(r)
                        /\ UNCHANGED error
                   ELSE /\ pc' = "failed"
                        /\ error' = Fail("clustering", "RasterWriteFailure")
                        /\ log' = log \cup ReshapeLog(r) \cup {ErrorLog("clustering")}
                        /\ UNCHANGED <<tif, raw_json, files>>
    /\ UNCHANGED <<inputVars, resampleVars, featureVars, clusterVars, interpVars, legend, report,
                   finished, valid_mask, kmeans_labels, post_array, arg, min_area_pixels>>
    /\ UNCHANGED sideVars

\* Mutant of FilterResult: the filter writes its result into the raw array.
FilterResult_in_place(raw) == raw

\* line 498: filtered.astype(np.int32) is a new array
FilterResult(raw) == raw + 2

\* lines 101-111: labels_post is a copy of the raw array (line 103) and then
\* the new array of the majority filter; without postprocessing labels_post
\* is the raw array itself (line 120)
PostprocessFilter(enable_postprocessing, min_area, mode_arrays) ==
    /\ pc = "A4_postprocess"
    /\ post_enabled' = enable_postprocessing
    /\ IF ~enable_postprocessing
       THEN /\ mode_arrays /\ min_area = 1
            /\ arrays' = ((raw_array + 1) :> arrays[raw_array]) @@ arrays
            /\ post_array' = raw_array
            /\ pc' = "A5_statistics"
            /\ UNCHANGED <<min_area_pixels, error, log>>
       ELSE /\ min_area_pixels' = min_area
            /\ IF FilterRaises(arrays[raw_array], mode_arrays)
               THEN /\ arrays' = ((raw_array + 1) :> arrays[raw_array]) @@ arrays
                    /\ post_array' = raw_array + 1
                    /\ pc' = "failed"
                    /\ error' = Fail("postprocessing", "IndexError")
                    /\ log' = log \cup {ErrorLog("postprocessing")}
               ELSE /\ arrays' = (FilterResult(raw_array) :> apply_majority_filter(arrays[raw_array]))
                                    @@ ((raw_array + 1) :> arrays[raw_array]) @@ arrays
                    /\ post_array' = FilterResult(raw_array)
                    /\ pc' = "A4_remove"
                    /\ UNCHANGED <<error, log>>
    /\ UNCHANGED <<inputVars, resampleVars, featureVars, num_clusters, labels_reshaped,
                   labels_post, interpVars, outputVars, finished, valid_mask,
                   kmeans_labels, target_shape, raw_array, arg, raw_json, tif>>
    /\ UNCHANGED sideVars

\* lines 112-118: the removal writes into the array it is given and returns it
\* (lines 523 and 529); clusters_post.tif
PostprocessRemove(io_ok) ==
    /\ pc = "A4_remove"
    /\ arrays' = [arrays EXCEPT ![post_array] = remove_small_clusters(@, min_area_pixels)]
    /\ log' = log \cup {[level |-> "INFO", msg |-> "Removed small clusters", arg |-> ""]}
                  \cup (IF io_ok THEN {} ELSE {ErrorLog("postprocessing")})
    /\ IF io_ok
       THEN /\ pc' = "A5_statistics"
            /\ tif' = ("clusters_post.tif" :> arrays'[post_array]) @@ tif
            /\ files' = files \cup {"clusters_post.tif"}
            /\ UNCHANGED error
       ELSE /\ pc' = "failed"
            /\ error' = Fail("postprocessing", "RasterWriteFailure")
            /\ UNCHANGED <<tif, files>>
    /\ UNCHANGED <<inputVars, resampleVars, featureVars, clusterVars, interpVars, legend,
                   report, finished, valid_mask, kmeans_labels, target_shape, raw_array,
                   post_array, arg, min_area_pixels, raw_json>>
    /\ UNCHANGED sideVars

\* Mutant of total_pixels: the sentinel pixels are counted too.
total_pixels_all(g) == Len(g.cells)

\* line 535: np.sum(labels != -9999)
total_pixels(g) == Cardinality({i \in Cells(g) : g.cells[i] # NoData})

\* lines 538-539: np.sum(labels == cluster_id)
cluster_pixels(g, c) == Cardinality({i \in Cells(g) : g.cells[i] = c})

\* Mutant of ReportedClusters: every id of range(num_clusters) gets an entry.
ReportedClusters_zero_filled(g, k) == 0..(k - 1)

\* lines 537-542: range(num_clusters) without the ids that have no pixel
ReportedClusters(g, k) == {c \in 0..(k - 1) : cluster_pixels(g, c) # 0}

\* line 546: cluster_pixels / total_pixels * 100, held as the exact fraction
\* num / den; 0.0 without a labeled pixel
PercentArea(count, total) ==
    IF total > 0 THEN [num |-> count * 100, den |-> total] ELSE [num |-> 0, den |-> 1]

\* lines 532-563 on a label array: pixel_count and percent_area of every
\* reported cluster (the entry cluster_<id> is held under id)
ClusterStatisticsOf(g, k) ==
    [c \in ReportedClusters(g, k) |->
        [pixel_count |-> cluster_pixels(g, c),
         percent_area |-> PercentArea(cluster_pixels(g, c), total_pixels(g))]]

\* lines 122-135: step A5 on the array labels_post refers to; clusters_stats.json
StatisticsOfArray(io_ok) ==
    /\ pc = "A5_statistics"
    /\ stats' = ClusterStatisticsOf(arrays[post_array], num_clusters)
    /\ IF io_ok
       THEN /\ pc' = "A6_interpret"
            /\ files' = files \cup {"clusters_stats.json"}
            /\ UNCHANGED <<error, log>>
       ELSE /\ pc' = "failed"
            /\ error' = Fail("statistics", "IOError")
            /\ log' = log \cup {ErrorLog("statistics")}
            /\ UNCHANGED files
    /\ UNCHANGED <<inputVars, resampleVars, featureVars, clusterVars, llm_config, llm_result,
                   interp_via, response, requests, legend, report, finished, gridVars>>
    /\ UNCHANGED sideVars

----------------------------------------------------------------------------
(* ClassificationWorker.run *)

\* str(e): the text of the exception, held as its kind
Message(err) == err.kind

\* Mutant of Emitted: success is reported whatever happened.
Emitted_always_success(err) ==
    [success |-> TRUE, message |-> "Classification completed successfully!"]

\* classification_wizard.py lines 59-93: the arguments of finished.emit, a
\* (bool, str) pair; line 85 after a result was returned, line 93 after an
\* exception
Emitted(err) ==
    IF err = NoError
    THEN [success |-> TRUE, message |-> "Classification completed successfully!"]
    ELSE [success |-> FALSE, message |-> Message(err)]

\* classification_wizard.py lines 47-93, after run_classification returned or raised
WorkerFinish ==
    /\ pc \in {"done", "failed"}
    /\ pc' = "reported"
    /\ finished' = Append(finished, Emitted(error))
    /\ log' = log \cup (IF error = NoError THEN {}
                        ELSE {[level |-> "ERROR", msg |-> "ERROR", arg |-> Message(error)]})
    /\ UNCHANGED <<inputVars, resampleVars, featureVars, clusterVars, interpVars, outputVars,
                   error, gridVars>>
    /\ UNCHANGED sideVars

----------------------------------------------------------------------------
(* Resampling and feature preparation on every band mapping *)

\* The state before classify_python_kmeans has run a step
Fresh ==
    /\ band_i = 1
    /\ width = 0
    /\ height = 0
    /\ resampled_bands = EmptyMap
    /\ reference_layer = "none"
    /\ features = EmptyMap
    /\ features_shape = <<>>
    /\ stack = NoStack
    /\ num_clusters = 0
    /\ labels_reshaped = NoLabels
    /\ labels_post = NoLabels
    /\ post_enabled = FALSE
    /\ llm_config = NoConfig
    /\ llm_result = None
    /\ interp_via = "none"
    /\ response = NoResponse
    /\ requests = 0
    /\ legend = EmptyMap
    /\ report = NoReport
    /\ files = {}
    /\ log = {}
    /\ error = NoError
    /\ finished = <<>>

\* No label array exists before step A3
NoArrays ==
    /\ valid_mask = <<>>
    /\ kmeans_labels = <<>>
    /\ target_shape = <<>>
    /\ arrays = EmptyMap
    /\ raw_array = 0
    /\ post_array = 0
    /\ arg = NoGrid
    /\ min_area_pixels = 0
    /\ raw_json = NoRawJson
    /\ tif = EmptyMap

\* No second run, no pixel under study and no worker
SideIdle ==
    /\ runs = EmptyMap
    /\ temp_files = EmptyMap
    /\ pixels = EmptyMap
    /\ index_px = EmptyMap
    /\ config = NoWorkerConfig
    /\ classification_result = NoResult

InitResample ==
    /\ pc = "A1_resample"
    /\ raster_layer \in Layers
    /\ roi \in Rois
    /\ band_mapping \in BandMappings
    /\ stats = EmptyMap
    /\ Fresh
    /\ NoArrays
    /\ SideIdle

NextResample ==
    \/ ResampleBegin
    \/ \E outcome \in WarpOutcomes : ResampleBand(outcome)
    \/ ResampleEnd
    \/ CalculateFeatures
    \/ PrepareFeatures

SpecResample == InitResample /\ [][NextResample]_vars

----------------------------------------------------------------------------
(* interpret_clusters_with_llm on every statistics mapping, configuration    *)
(* and backend behaviour                                                     *)

MaxClusters == 2

ClusterIds == 0..(MaxClusters - 1)

NDVIValues == {5, 9, 10, 29, 30, 60, 61}

MNDWIValues == {-1, 0, 30, 31, 35}

NDBIValues == {20, 21}

ValuesOf(name) ==
    CASE name = "NDVI" -> NDVIValues [] name = "MNDWI" -> MNDWIValues [] name = "NDBI" -> NDBIValues

\* The sets of indices calculate_features can give: NDVI with MNDWI needs the
\* bands B3, B4, B8 and B11, which give NDBI too.
IndexSets == {D \in SUBSET Indices : {"NDVI", "MNDWI"} \subseteq D => "NDBI" \in D}

AllMeans ==
    UNION { {m \in [D -> NDVIValues \cup MNDWIValues \cup NDBIValues] :
                \A n \in D : m[n] \in ValuesOf(n)} : D \in IndexSets }

\* One statistics record per rule of the rule engine, and one without indices
SomeMeans ==
    { [NDVI |-> 5, MNDWI |-> 35, NDBI |-> 20], [NDVI |-> 61, MNDWI |-> 0, NDBI |-> 20],
      [NDVI |-> 30, MNDWI |-> 0, NDBI |-> 21], [NDVI |-> 29, MNDWI |-> 0, NDBI |-> 21],
      [NDVI |-> 9, MNDWI |-> -1, NDBI |-> 20], [NDVI |-> 10, MNDWI |-> 0, NDBI |-> 20] }

PixelCounts == {1, 2}

ClusterStats(M) == { [pixel_count |-> n, means |-> m] : n \in PixelCounts, m \in M }

AllStats ==
    UNION {[C -> ClusterStats(SomeMeans)] : C \in SUBSET ClusterIds}
    \cup { (c :> cs) : c \in ClusterIds, cs \in ClusterStats(AllMeans) }

GoodObject == <<"{", "lWater", ",", "c90", ",", "r", "}">>

\* The values a response gives to a cluster key
ResponseValues ==
    { GoodObject,
      <<"{", "lDesert", ",", "c90", ",", "r", "}">>,   \* a label outside the vocabulary
      <<"{", "lWater", ",", "c150", ",", "r", "}">>,   \* a confidence above 1
      <<"{", "lWater", ",", "c90", "}">>,              \* no rationale
      <<"sWater">> }                                   \* a string, not an object

\* Well-formed JSON objects
JsonTexts ==
    { <<"{", "}">> }
    \cup { <<"{", "k0">> \o v \o <<"}">> : v \in ResponseValues }
    \cup { <<"{", "k1">> \o v \o <<"}">> : v \in {GoodObject} }
    \cup { <<"{", "k0">> \o v \o <<",", "k1">> \o GoodObject \o <<"}">> : v \in ResponseValues }

\* Responses around the object {"cluster_0": {...}}
WrappedTexts ==
    LET body == <<"{", "k0">> \o GoodObject \o <<"}">>
    IN  { <<"w">> \o body, body \o <<"w">>, <<"w">> \o body \o <<"w">>,
          body \o <<"w", "{", "w", "}">>,                      \* braces after the object
          <<"{", "k0">> \o GoodObject \o <<",", "}">>,         \* a trailing comma
          <<"{", "q0">> \o GoodObject \o <<"}">>,              \* the key in single quotes
          <<"{", "k0">> \o GoodObject }                        \* cut off

OtherTexts == { <<>>, <<"w">>, <<"{", "w", "}">>, <<"}", "w", "{">>, <<"w", "{", "w">> }

TextRemote(t) == [kind |-> "text", text |-> t]

AllRemotes ==
    { [kind |-> "network_error", text |-> <<>>], [kind |-> "timeout", text |-> <<>>] }
    \cup { TextRemote(t) : t \in JsonTexts \cup WrappedTexts \cup OtherTexts }

AllConfigs ==
    { [enabled |-> e, provider |-> p] : e \in BOOLEAN, p \in KnownProviders \cup {"other"} }

InitInterp ==
    /\ pc = "A6_interpret"
    /\ raster_layer = [extent |-> Rect(0, 100, 0, 100), width |-> 10, height |-> 10]
    /\ roi = [type |-> "full", extent |-> Rect(0, 0, 0, 0)]
    /\ band_mapping = BandCodes
    /\ stats \in AllStats
    /\ Fresh
    /\ NoArrays
    /\ SideIdle

NextInterp == \E cfg \in AllConfigs, remote \in AllRemotes : Interpret(TRUE, cfg, remote)

SpecInterp == InitInterp /\ [][NextInterp]_vars

----------------------------------------------------------------------------
(* The whole of classify_python_kmeans *)

PipelineLayers ==
    { [extent |-> Rect(0, 100, 0, 100), width |-> 10, height |-> 10],
      [extent |-> Rect(0, 400, 0, 100), width |-> 20, height |-> 5] }

PipelineRois ==
    { [type |-> "full", extent |-> Rect(0, 0, 0, 0)],
      [type |-> "rectangle", extent |-> Rect(0, 100, 0, 100)],
      [type |-> "rectangle", extent |-> Rect(20, 20, 0, 100)] }

PipelineMappings ==
    { <<"B2", "B3", "B4">>, <<"B8", "B11">>, <<>> }

PipelineMeans ==
    { [NDVI |-> 5, MNDWI |-> 35, NDBI |-> 20], [NDVI |-> 10, MNDWI |-> 0, NDBI |-> 20] }

PipelineRemotes ==
    { [kind |-> "timeout", text |-> <<>>],
      TextRemote(<<>>),
      TextRemote(<<"w">>),
      TextRemote(<<"{", "}">>),
      TextRemote(<<"{", "k0">> \o GoodObject \o <<"}">>),
      TextRemote(<<"w", "{", "k0">> \o GoodObject \o <<",", "k1">> \o GoodObject \o <<"}">>),
      TextRemote(<<"{", "k0", "sWater", "}">>),
      TextRemote(<<"{", "k0">> \o GoodObject \o <<",", "}">>) }

PipelineConfigs ==
    { [enabled |-> e, provider |-> p] : e \in BOOLEAN, p \in {"ollama", "other"} }

Init ==
    /\ pc = "A1_resample"
    /\ raster_layer \in PipelineLayers
    /\ roi \in PipelineRois
    /\ band_mapping \in PipelineMappings
    /\ stats = EmptyMap
    /\ Fresh
    /\ NoArrays
    /\ SideIdle

Next ==
    \/ ResampleBegin
    \/ \E outcome \in WarpOutcomes : ResampleBand(outcome)
    \/ ResampleEnd
    \/ CalculateFeatures
    \/ PrepareFeatures
    \/ \E k \in 2..MaxClusters, present \in SUBSET ClusterIds, tail_ok \in BOOLEAN, io_ok \in BOOLEAN :
          Cluster(k, present, tail_ok, io_ok)
    \/ \E enable_postprocessing \in BOOLEAN, kept \in SUBSET ClusterIds, io_ok \in BOOLEAN :
          Postprocess(enable_postprocessing, kept, io_ok)
    \/ \E C \in SUBSET ClusterIds :
          \E counts \in [C -> PixelCounts], means \in [C -> PipelineMeans], io_ok \in BOOLEAN :
             Statistics(counts, means, io_ok)
    \/ \E enable_llm \in BOOLEAN, cfg \in PipelineConfigs, remote \in PipelineRemotes :
          Interpret(enable_llm, cfg, remote)
    \/ \E io_ok \in BOOLEAN : Assemble(io_ok)
    \/ WorkerFinish

Spec == Init /\ [][Next]_vars

----------------------------------------------------------------------------
(* Steps A3 and A4 on every small grid *)

\* The variables of the other steps, at rest
OtherStepsIdle ==
    /\ raster_layer = [extent |-> Rect(0, 100, 0, 100), width |-> 10, height |-> 10]
    /\ roi = [type |-> "full", extent |-> Rect(0, 0, 0, 0)]
    /\ band_mapping = BandCodes
    /\ band_i = 1 /\ width = 0 /\ height = 0
    /\ resampled_bands = EmptyMap /\ reference_layer = "none"
    /\ features = EmptyMap
    /\ num_clusters = 0
    /\ labels_reshaped = NoLabels /\ labels_post = NoLabels /\ post_enabled = FALSE
    /\ stats = EmptyMap /\ llm_config = NoConfig /\ llm_result = None
    /\ interp_via = "none" /\ response = NoResponse /\ requests = 0
    /\ legend = EmptyMap /\ report = NoReport /\ files = {}
    /\ log = {} /\ error = NoError /\ finished = <<>>

GridShapes == {<<1, 2>>, <<1, 3>>, <<2, 2>>, <<2, 3>>}

\* Lengths of valid_mask where no shape was recorded
UnshapedLengths == {2, 3, 4}

Masks(n) == [1..n -> BOOLEAN]

MinAreas == {1, 2, 3}

\* After prepare_features: the recorded shape (or none), a valid_mask with at
\* least one valid row, and the shape handed on (line 434)
InitGrid ==
    /\ pc = "A3_kmeans"
    /\ OtherStepsIdle
    /\ features_shape \in GridShapes \cup {<<>>}
    /\ valid_mask \in UNION {Masks(n) : n \in
                               IF features_shape = <<>> THEN UnshapedLengths
                               ELSE {Size(features_shape)}}
    /\ TrueCount(valid_mask) > 0
    /\ stack = [mask_len |-> Len(valid_mask), valid |-> TrueCount(valid_mask),
                shape |-> StackShape(features_shape, TrueCount(valid_mask))]
    /\ kmeans_labels = <<>>
    /\ target_shape = <<>>
    /\ arrays = EmptyMap
    /\ raw_array = 0
    /\ post_array = 0
    /\ arg = NoGrid
    /\ min_area_pixels = 0
    /\ raw_json = NoRawJson
    /\ tif = EmptyMap
    /\ SideIdle

NextGrid ==
    \/ \E k \in 2..MaxClusters : FitPredict(k)
    \/ \E io_ok \in BOOLEAN : ReshapeAndSave(io_ok)
    \/ \E enable_postprocessing \in BOOLEAN, min_area \in MinAreas, mode_arrays \in BOOLEAN :
          PostprocessFilter(enable_postprocessing, min_area, mode_arrays)
    \/ \E io_ok \in BOOLEAN : PostprocessRemove(io_ok)
    \/ \E io_ok \in BOOLEAN : StatisticsOfArray(io_ok)

SpecGrid == InitGrid /\ [][NextGrid]_vars

----------------------------------------------------------------------------
(* reshape_labels_safe on every combination of lengths *)

ReshapeShapes == {<<1, 1>>, <<1, 2>>, <<2, 1>>, <<2, 2>>, <<1, 3>>}

LabelLengths == 0..3

MaskLengths == 0..4

InitReshape ==
    /\ pc = "R_call"
    /\ OtherStepsIdle
    /\ features_shape = <<>>
    /\ stack = NoStack
    /\ kmeans_labels \in UNION {[1..n -> ClusterIds] : n \in LabelLengths}
    /\ valid_mask \in UNION {Masks(n) : n \in MaskLengths}
    /\ target_shape \in ReshapeShapes
    /\ arrays = EmptyMap
    /\ raw_array = 0
    /\ post_array = 0
    /\ arg = NoGrid
    /\ min_area_pixels = 0
    /\ raw_json = NoRawJson
    /\ tif = EmptyMap
    /\ SideIdle

\* reshape_labels_safe(labels, shape, valid_mask, log_callback)
CallReshape ==
    /\ pc = "R_call"
    /\ LET r == reshape_labels_safe(kmeans_labels, target_shape, valid_mask)
       IN  /\ log' = log \cup ReshapeLog(r)
           /\ IF r.raised
              THEN /\ pc' = "failed"
                   /\ error' = Fail("clustering", "ValueError")
                   /\ UNCHANGED <<arrays, raw_array>>
              ELSE /\ pc' = "R_done"
                   /\ arrays' = (1 :> r.grid)
                   /\ raw_array' = 1
                   /\ UNCHANGED error
    /\ UNCHANGED <<inputVars, resampleVars, featureVars, clusterVars, interpVars, outputVars,
                   finished, valid_mask, kmeans_labels, target_shape, post_array, arg,
                   min_area_pixels, raw_json, tif>>
    /\ UNCHANGED sideVars

NextReshape == CallReshape

SpecReshape == InitReshape /\ [][NextReshape]_vars

----------------------------------------------------------------------------
(* apply_majority_filter and remove_small_clusters on every small grid *)

AllGrids ==
    UNION {{[shape |-> sh, cells |-> c] : c \in [1..Size(sh) -> ClusterIds \cup {NoData}]} :
              sh \in GridShapes}

InitPost ==
    /\ pc = "P_call"
    /\ OtherStepsIdle
    /\ features_shape = <<>>
    /\ stack = NoStack
    /\ kmeans_labels = <<>>
    /\ valid_mask = <<>>
    /\ target_shape = <<>>
    /\ arg \in AllGrids
    /\ arrays = (1 :> arg)
    /\ raw_array = 0
    /\ post_array = 0
    /\ min_area_pixels = 0
    /\ raw_json = NoRawJson
    /\ tif = EmptyMap
    /\ SideIdle

\* apply_majority_filter(labels): a new array, or IndexError
CallMajority(mode_arrays) ==
    /\ pc = "P_call"
    /\ IF FilterRaises(arrays[1], mode_arrays)
       THEN /\ pc' = "failed"
            /\ error' = Fail("postprocessing", "IndexError")
            /\ UNCHANGED <<arrays, post_array>>
       ELSE /\ pc' = "P_majority"
            /\ arrays' = arrays @@ (2 :> apply_majority_filter(arrays[1]))
            /\ post_array' = 2
            /\ UNCHANGED error
    /\ UNCHANGED <<inputVars, resampleVars, featureVars, clusterVars, interpVars, outputVars,
                   log, finished, valid_mask, kmeans_labels, target_shape, raw_array, arg,
                   min_area_pixels, raw_json, tif>>
    /\ UNCHANGED sideVars

\* remove_small_clusters(labels, min_area_pixels): writes into labels and returns it
CallRemoveSmall(min_area) ==
    /\ pc = "P_call"
    /\ pc' = "P_removed"
    /\ min_area_pixels' = min_area
    /\ arrays' = [arrays EXCEPT ![1] = remove_small_clusters(@, min_area)]
    /\ post_array' = 1
    /\ log' = log \cup {[level |-> "INFO", msg |-> "Removed small clusters", arg |-> ""]}
    /\ UNCHANGED <<inputVars, resampleVars, featureVars, clusterVars, interpVars, outputVars,
                   error, finished, valid_mask, kmeans_labels, target_shape, raw_array, arg,
                   raw_json, tif>>
    /\ UNCHANGED sideVars

NextPost ==
    \/ \E mode_arrays \in BOOLEAN : CallMajority(mode_arrays)
    \/ \E min_area \in MinAreas : CallRemoveSmall(min_area)

SpecPost == InitPost /\ [][NextPost]_vars

----------------------------------------------------------------------------
(* Two runs of resample_bands and calculate_features in one process *)

\* The process id of the one process both worker threads run in
Pid == "pid"

\* lines 241 and 248: os.path.join(tempfile.gettempdir(),
\* f"resampled_{band_code}_{os.getpid()}.tif"); nothing of the run (its ROI,
\* its output directory) is in the path
temp_output(run, band_code) == <<"resampled", band_code, Pid>>

RunIds == {1, 2}

\* Each run has its own ROI extent
RunExtent(run) == IF run = 1 THEN Rect(0, 100, 0, 100) ELSE Rect(0, 50, 0, 100)

RunMappings == {<<"B2", "B3">>, <<"B3", "B4">>, <<"B4">>}

\* The band of the loop of line 243 the run is at
RunBand(run) == runs[run].mapping[runs[run].i]

\* The run goes on to the next band, or to calculate_features after the last
NextBand(run, band) ==
    [runs EXCEPT ![run].bands = Put(@, RunBand(run), band),
                 ![run].i = @ + 1,
                 ![run].pc = IF runs[run].i = Len(runs[run].mapping) THEN "features" ELSE "warp"]

\* lines 280-293: the band read from the input layer by the run itself
OwnBlock(run) == [kind |-> "dict", path |-> <<>>, opened |-> [by |-> run, extent |-> RunExtent(run)]]

\* lines 251-265: gdal:warpreproject writes the band of the run's extent to
\* the temporary path; lines 273-293 when it raises
RunWarp(run, ok) ==
    /\ run \in DOMAIN runs
    /\ runs[run].pc = "warp"
    /\ IF ok
       THEN /\ temp_files' = Put(temp_files, temp_output(run, RunBand(run)),
                                 [by |-> run, extent |-> RunExtent(run)])
            /\ runs' = [runs EXCEPT ![run].pc = "open"]
       ELSE /\ runs' = NextBand(run, OwnBlock(run))
            /\ UNCHANGED temp_files
    /\ UNCHANGED <<pc, inputVars, resampleVars, featureVars, clusterVars, interpVars, outputVars,
                   log, error, finished, gridVars, pixelVars, workerVars>>

\* lines 266-272: QgsRasterLayer(result['OUTPUT']) opens whatever the path
\* holds now; an invalid layer goes to the fallback of lines 273-293
RunOpen(run, valid) ==
    /\ run \in DOMAIN runs
    /\ runs[run].pc = "open"
    /\ runs' = NextBand(run,
                  IF valid
                  THEN [kind |-> "layer", path |-> temp_output(run, RunBand(run)),
                        opened |-> temp_files[temp_output(run, RunBand(run))]]
                  ELSE OwnBlock(run))
    /\ UNCHANGED <<pc, inputVars, resampleVars, featureVars, clusterVars, interpVars, outputVars,
                   log, error, finished, gridVars, temp_files, pixelVars, workerVars>>

\* lines 323-331: get_band_array reads the block of every band through its
\* layer. What a layer gives after its file was written again depends on the
\* platform: the data it was opened on, or the data the path holds now
\* (current).
RunFeatures(run, current) ==
    /\ run \in DOMAIN runs
    /\ runs[run].pc = "features"
    /\ runs' = [runs EXCEPT
                  ![run].read = [code \in DOMAIN runs[run].bands |->
                                    LET b == runs[run].bands[code]
                                    IN  IF b.kind = "layer" /\ current
                                        THEN temp_files[b.path]
                                        ELSE b.opened],
                  ![run].pc = "done"]
    /\ UNCHANGED <<pc, inputVars, resampleVars, featureVars, clusterVars, interpVars, outputVars,
                   log, error, finished, gridVars, temp_files, pixelVars, workerVars>>

InitRuns ==
    /\ pc = "runs"
    /\ OtherStepsIdle
    /\ features_shape = <<>>
    /\ stack = NoStack
    /\ NoArrays
    /\ runs \in [RunIds -> {[mapping |-> m, pc |-> "warp", i |-> 1, bands |-> EmptyMap,
                             read |-> EmptyMap] : m \in RunMappings}]
    /\ temp_files = EmptyMap
    /\ pixels = EmptyMap
    /\ index_px = EmptyMap
    /\ config = NoWorkerConfig
    /\ classification_result = NoResult

NextRuns ==
    \/ \E run \in RunIds, ok \in BOOLEAN : RunWarp(run, ok)
    \/ \E run \in RunIds, valid \in BOOLEAN : RunOpen(run, valid)
    \/ \E run \in RunIds, current \in BOOLEAN : RunFeatures(run, current)

SpecRuns == InitRuns /\ [][NextRuns]_vars

----------------------------------------------------------------------------
(* The indices of calculate_features at one pixel *)

\* A quotient num / (den + 1e-10) of whole band values; masked where the
\* output keeps the 0 of np.zeros_like
Quotient(num, den, masked) == [num |-> num, den |-> den, masked |-> masked]

\* Mutant of protected_divide: np.divide without its where argument.
protected_divide_unmasked(a, b) == Quotient(a - b, a + b, FALSE)

\* lines 355-360 (367-372, 379-384): np.divide(a - b, a + b + 1e-10,
\* out=zeros, where=(a + b) != 0)
protected_divide(a, b) == Quotient(a - b, a + b, a + b = 0)

\* lines 353-387 at one pixel: the indices whose two bands are present
IndexPixels(px) ==
    [n \in {x \in Indices : IndexWanted(px, x)} |->
        protected_divide(px[IndexBands(n)[1]], px[IndexBands(n)[2]])]

CalculateIndices ==
    /\ pc = "I_call"
    /\ pc' = "I_done"
    /\ index_px' = IndexPixels(pixels)
    /\ UNCHANGED <<inputVars, resampleVars, featureVars, clusterVars, interpVars, outputVars,
                   log, error, finished, gridVars, runVars, pixels, workerVars>>

\* The largest band value of a pixel
MaxPixel == 2

\* Band values: whole numbers, a negative one among them
PixelValues == -1..MaxPixel

InitIndex ==
    /\ pc = "I_call"
    /\ OtherStepsIdle
    /\ features_shape = <<>>
    /\ stack = NoStack
    /\ NoArrays
    /\ runs = EmptyMap
    /\ temp_files = EmptyMap
    /\ pixels \in UNION {[S -> PixelValues] : S \in SUBSET {"B3", "B4", "B8", "B11"}}
    /\ index_px = EmptyMap
    /\ config = NoWorkerConfig
    /\ classification_result = NoResult

NextIndex == CalculateIndices

SpecIndex == InitIndex /\ [][NextIndex]_vars

----------------------------------------------------------------------------
(* ClassificationWorker.run, step by step *)

\* classification_wizard.py lines 111-157: the algorithms run_classification
\* knows; any other raises ValueError
KnownAlgorithms == {"python", "saga", "otb", "grass"}

\* Mutant of ExceptEmits: the handler logs the error and emits nothing.
ExceptEmits_silent(err) == <<>>

\* classification_wizard.py lines 87-93: the handler emits finished(False, str(e))
ExceptEmits(err) == <<Emitted(err)>>

\* classification_wizard.py lines 59-64: run_classification raises, returns
\* nothing (finished(False, ...) and return) or returns a result
RunClassification(outcome, layer, llm) ==
    /\ pc = "W_classify"
    /\ IF config.algorithm \notin KnownAlgorithms \/ outcome = "raises"
       THEN /\ pc' = "W_except"
            /\ error' = Fail("classification",
                             IF config.algorithm \notin KnownAlgorithms THEN "ValueError"
                             ELSE "PipelineError")
            /\ UNCHANGED <<classification_result, finished>>
       ELSE IF outcome = "empty"
       THEN /\ classification_result' = [returned |-> "none", layer |-> FALSE, llm_result |-> FALSE]
            /\ finished' = Append(finished, [success |-> FALSE, message |-> "Classification failed"])
            /\ pc' = "W_end"
            /\ UNCHANGED error
       ELSE /\ classification_result' = [returned |-> "dict", layer |-> layer, llm_result |-> llm]
            /\ pc' = "W_styling"
            /\ UNCHANGED <<error, finished>>
    /\ UNCHANGED <<inputVars, resampleVars, featureVars, clusterVars, interpVars, outputVars,
                   log, gridVars, runVars, pixelVars, config>>

\* classification_wizard.py lines 70-75
ApplyStyling(raises) ==
    /\ pc = "W_styling"
    /\ raises => (classification_result.llm_result /\ classification_result.layer)
    /\ IF raises
       THEN pc' = "W_except" /\ error' = Fail("styling", "RuntimeError")
       ELSE pc' = "W_add" /\ UNCHANGED error
    /\ UNCHANGED <<inputVars, resampleVars, featureVars, clusterVars, interpVars, outputVars,
                   log, finished, gridVars, sideVars>>

\* classification_wizard.py lines 77-83
AddToMap(raises) ==
    /\ pc = "W_add"
    /\ raises => (config.add_to_map /\ classification_result.layer)
    /\ IF raises
       THEN pc' = "W_except" /\ error' = Fail("add_to_map", "RuntimeError") /\ UNCHANGED log
       ELSE /\ pc' = "W_emit"
            /\ log' = log \cup (IF config.add_to_map /\ classification_result.layer
                                THEN {[level |-> "INFO", msg |-> "Added classification layer to map",
                                       arg |-> ""]}
                                ELSE {})
            /\ UNCHANGED error
    /\ UNCHANGED <<inputVars, resampleVars, featureVars, clusterVars, interpVars, outputVars,
                   finished, gridVars, sideVars>>

\* classification_wizard.py line 85
EmitSuccess ==
    /\ pc = "W_emit"
    /\ pc' = "W_end"
    /\ finished' = Append(finished, [success |-> TRUE,
                                     message |-> "Classification completed successfully!"])
    /\ UNCHANGED <<inputVars, resampleVars, featureVars, clusterVars, interpVars, outputVars,
                   log, error, gridVars, sideVars>>

\* classification_wizard.py lines 87-93
HandleException ==
    /\ pc = "W_except"
    /\ pc' = "W_end"
    /\ log' = log \cup {[level |-> "ERROR", msg |-> "ERROR", arg |-> Message(error)]}
    /\ finished' = finished \o ExceptEmits(error)
    /\ UNCHANGED <<inputVars, resampleVars, featureVars, clusterVars, interpVars, outputVars,
                   error, gridVars, sideVars>>

Algorithms == KnownAlgorithms \cup {"other"}

InitWorker ==
    /\ pc = "W_classify"
    /\ OtherStepsIdle
    /\ features_shape = <<>>
    /\ stack = NoStack
    /\ NoArrays
    /\ runs = EmptyMap
    /\ temp_files = EmptyMap
    /\ pixels = EmptyMap
    /\ index_px = EmptyMap
    /\ config \in [algorithm : Algorithms, add_to_map : BOOLEAN]
    /\ classification_result = NoResult

NextWorker ==
    \/ \E outcome \in {"result", "empty", "raises"}, layer \in BOOLEAN, llm \in BOOLEAN :
          RunClassification(outcome, layer, llm)
    \/ \E raises \in BOOLEAN : ApplyStyling(raises)
    \/ \E raises \in BOOLEAN : AddToMap(raises)
    \/ EmitSuccess
    \/ HandleException

SpecWorker == InitWorker /\ [][NextWorker]_vars

\* run is one call on its own thread: it runs on to its end
SpecWorkerFair == SpecWorker /\ WF_vars(NextWorker)

----------------------------------------------------------------------------
(* Properties of resampling and feature calculation (SpecResample) *)

Range(seq) == {seq[i] : i \in 1..Len(seq)}

Resampled == pc \notin {"A1_resample", "A1_band"}

ZeroArea(extent) ==
    extent.xMaximum = extent.xMinimum \/ extent.yMaximum = extent.yMinimum

\* C6: an ROI whose extent has zero width or zero height makes the run fail
\* with an InvalidROI error before any band is resampled or extracted.
C6_ZeroAreaRoiRejected ==
    ZeroArea(TargetExtent(raster_layer, roi)) =>
        /\ DOMAIN resampled_bands = {}
        /\ pc # "A1_resample" => (pc = "failed" /\ error.kind = "InvalidROI")

\* C7: a band whose warp call raises or gives an invalid layer is logged with
\* a WARNING, stored as the directly extracted band, and the loop goes on to
\* the remaining bands: the result has an entry for every band code of the
\* mapping and resampling does not abort the pipeline.
C7_FallbackAbsorbed ==
    /\ [](Resampled => DOMAIN resampled_bands = Range(band_mapping))
    /\ [](error.stage = "resampling" => band_mapping = <<>>)
    /\ [](\A c \in DOMAIN resampled_bands :
            resampled_bands[c].kind = "dict" =>
                [level |-> "WARNING", msg |-> "GDAL warp failed", arg |-> c] \in log)
    /\ [][\A o \in {"raises", "invalid"} :
            ResampleBand(o) =>
                /\ band_mapping[band_i] \in DOMAIN resampled_bands'
                /\ resampled_bands'[band_mapping[band_i]].kind = "dict"
                /\ FallbackLog(band_mapping[band_i]) \subseteq log'
                /\ pc' = "A1_band" /\ band_i' = band_i + 1 /\ error' = NoError]_vars

\* C7 witness: resampling returned with a fallback band followed by a warped one.
C7_Witness ==
    /\ pc = "A2_features"
    /\ Len(band_mapping) >= 3
    /\ resampled_bands[band_mapping[1]].kind = "dict"
    /\ resampled_bands[band_mapping[2]].kind = "layer"
    /\ [level |-> "WARNING", msg |-> "GDAL warp failed", arg |-> band_mapping[1]] \in log

SameShapes(bands) == \A a, b \in DOMAIN bands : bands[a].shape = bands[b].shape

\* C8: after resampling all bands have one grid shape, whatever warp calls
\* succeeded or failed; a combination with differing shapes ends in an error
\* instead of going on past feature stacking.
C8_BandShapesIdentical ==
    pc = "A3_kmeans" => SameShapes(resampled_bands)

FloorShape(extent) ==
    << (extent.yMaximum - extent.yMinimum) \div 10, (extent.xMaximum - extent.xMinimum) \div 10 >>

WholePixels(extent) ==
    /\ (extent.xMaximum - extent.xMinimum) % 10 = 0
    /\ (extent.yMaximum - extent.yMinimum) % 10 = 0

FeaturesDone == pc \in {"A3_prepare", "A3_kmeans"}

\* C10: calculate_features fails for no set of bands present; the features
\* hold exactly the bands present, NDVI iff B8 and B4 are present, MNDWI iff
\* B3 and B11 are, NDBI iff B11 and B8 are.
C10_FeaturesForEverySubset ==
    /\ error.stage # "features"
    /\ FeaturesDone =>
          /\ DOMAIN features \cap Bands = DOMAIN resampled_bands
          /\ "NDVI" \in DOMAIN features <=> {"B8", "B4"} \subseteq DOMAIN resampled_bands
          /\ "MNDWI" \in DOMAIN features <=> {"B3", "B11"} \subseteq DOMAIN resampled_bands
          /\ "NDBI" \in DOMAIN features <=> {"B11", "B8"} \subseteq DOMAIN resampled_bands

FirstAvailable(bands) ==
    BandCodes[Min({i \in 1..Len(BandCodes) : BandCodes[i] \in DOMAIN bands})]

\* C11: for every non-empty set of bands present, the features record a
\* common shape, the shape of the first band present in the order B2, B3, B4,
\* B8, B11, and every feature grid included has that shape.
C11_CommonShapeRecorded ==
    (FeaturesDone /\ DOMAIN resampled_bands # {}) =>
        /\ features_shape = resampled_bands[FirstAvailable(resampled_bands)].shape
        /\ \A n \in DOMAIN features : features[n] = features_shape

----------------------------------------------------------------------------
(* Properties of the interpreter (SpecInterp) *)

Interpreted == pc \in {"A7_assemble", "done"} \/ (pc = "failed" /\ error.stage = "assembly")

\* A remote failure: the client raised (network error, timeout), the provider
\* is unknown, the text is empty, holds no JSON object, holds one that does
\* not parse, or parses to an empty result.
RemoteFailed ==
    /\ llm_config.enabled
    /\ \/ llm_config.provider \notin KnownProviders
       \/ response.kind \in {"network_error", "timeout"}
       \/ /\ response.kind = "text"
          /\ \/ response.text = <<>>
             \/ ~RegexMatches(response.text)
             \/ ~JsonLoads(RegexGroup(response.text)).ok
             \/ JsonLoads(RegexGroup(response.text)).val = EmptyMap

\* C1: with the remote interpreter enabled, every kind of remote failure
\* gives exactly the mapping of rule_based_interpretation on the same stats.
C1_FallbackEquivalence ==
    (Interpreted /\ interp_via # "none" /\ RemoteFailed) =>
        llm_result = [is_none |-> FALSE, value |-> rule_based_interpretation(stats)]

Mean(c, name) == MeanOf(stats[c], name)

RuleConfidence(label) ==
    CASE label = "Water" -> 80 [] label = "Forest" -> 75 [] label = "Grassland" -> 70
      [] label = "Built-up" -> 75 [] label = "Bare soil/rock" -> 70 [] label = "Unknown" -> 50

RuleLabels == {"Water", "Forest", "Grassland", "Built-up", "Bare soil/rock", "Unknown"}

\* C3: the rule engine gives each cluster the label of the first matching
\* rule (MNDWI > 0.3 Water; NDVI > 0.6 Forest; 0.3 <= NDVI <= 0.6 Grassland;
\* NDBI > 0.2 Built-up; NDVI < 0.1 and MNDWI < 0 Bare soil/rock; else Unknown)
\* with that rule's confidence; MNDWI 0.35 with NDVI 0.05 is Water at 0.8; two
\* clusters with the same three means get the same entry.
C3_RuleDecisionTable ==
    (Interpreted /\ interp_via \in {"rule", "fallback"}) =>
        /\ ~llm_result.is_none
        /\ DOMAIN llm_result.value = DOMAIN stats
        /\ \A c \in DOMAIN stats :
             LET e == llm_result.value[c]
                 w == Mean(c, "MNDWI")
                 v == Mean(c, "NDVI")
                 b == Mean(c, "NDBI")
             IN  /\ e.label \in RuleLabels
                 /\ e.label = "Water" <=> w > 30
                 /\ e.label = "Forest" <=> (w <= 30 /\ v > 60)
                 /\ e.label = "Grassland" <=> (w <= 30 /\ 30 <= v /\ v <= 60)
                 /\ e.label = "Built-up" <=> (w <= 30 /\ v < 30 /\ b > 20)
                 /\ e.label = "Bare soil/rock" <=> (w < 0 /\ v < 10 /\ b <= 20)
                 /\ e.confidence = RuleConfidence(e.label)
                 /\ (w = 35 /\ v = 5) => (e.label = "Water" /\ e.confidence = 80)
        /\ \A c, d \in DOMAIN stats :
             (\A n \in Indices : Mean(c, n) = Mean(d, n)) =>
                 llm_result.value[c] = llm_result.value[d]

\* C3 witness: the rule engine ran on a cluster with MNDWI 0.35 and NDVI 0.05
\* and on a second cluster with the same means and another pixel count.
C3_Witness ==
    /\ Interpreted
    /\ interp_via = "fallback"
    /\ DOMAIN stats = {0, 1}
    /\ Mean(0, "MNDWI") = 35 /\ Mean(0, "NDVI") = 5
    /\ stats[0].means = stats[1].means
    /\ stats[0].pixel_count # stats[1].pixel_count
    /\ llm_result.value[0].label = "Water"

\* llm_prompt.py line 42: the labels the prompt allows
Vocabulary ==
    {"Water", "Forest", "Grassland", "Cropland", "Built-up", "Bare soil/rock",
     "Wetland", "Shadow", "Unknown"}

WellFormedEntry(e) ==
    /\ e.kind = "obj"
    /\ e.has = {"label", "confidence", "rationale"}
    /\ e.label \in Vocabulary
    /\ 0 <= e.confidence /\ e.confidence <= 100

\* C5: every entry of the interpretation returned, from the rule engine or
\* from a remote response, has a label of the closed vocabulary, a confidence
\* in [0,1] and a rationale.
C5_EntriesWellFormed ==
    (Interpreted /\ ~llm_result.is_none) =>
        \A c \in DOMAIN llm_result.value : WellFormedEntry(llm_result.value[c])

----------------------------------------------------------------------------
(* Properties of the whole pipeline (Spec) *)

\* C2: whatever the remote call does, the interpreter does not raise and a
\* run that reached the interpretation stage goes on to result assembly and
\* returns its result: no such run is aborted on account of the interpretation,
\* it can only fail where an output file cannot be written.
C2_RemoteNeverFatal ==
    /\ pc = "A7_assemble" => error = NoError
    /\ (pc = "failed" /\ error.stage = "assembly") => error.kind = "RasterWriteFailure"

InterpretationRecord(e) ==
    e.kind = "obj" /\ {"label", "confidence", "rationale"} \subseteq e.has

\* C4: in every successful run, for every setting of enable_llm_interpretation
\* and llm_config.enabled, the interpretation is present and maps every cluster
\* id of the statistics to a record with label, confidence and rationale.
C4_EveryClusterInterpreted ==
    pc = "done" =>
        /\ ~llm_result.is_none
        /\ \A c \in DOMAIN stats :
              c \in DOMAIN llm_result.value /\ InterpretationRecord(llm_result.value[c])

LaterArtifacts ==
    {"clusters_post.tif", "clusters_stats.json", "interpreted_layer.tif",
     "interpretation_report.json", "legend.json"}

\* C15: a clustering failure is fatal: the error leaves classify_python_kmeans
\* with its message, no result is returned, neither statistics nor
\* interpretation nor assembly runs, and the worker reports
\* finished(False, message) and never finished(True, ...).
C15_ClusteringFailureFatal ==
    error.stage = "clustering" =>
        /\ pc \in {"failed", "reported"}
        /\ stats = EmptyMap /\ llm_result = None /\ requests = 0
        /\ legend = EmptyMap /\ report = NoReport
        /\ files \cap LaterArtifacts = {}
        /\ pc = "failed" => finished = <<>>
        /\ pc = "reported" => finished = <<[success |-> FALSE, message |-> Message(error)]>>

\* C15 witness: fewer valid pixels than clusters, reported by the worker.
C15_Witness ==
    /\ pc = "reported"
    /\ error = Fail("clustering", "ValueError")
    /\ stack.valid = 1
    /\ num_clusters = 2
    /\ Len(finished) = 1

\* C16: every failure without a fallback reaches the caller as an error that
\* carries a message and the name of the pipeline stage that failed.
C16_ErrorCarriesStage ==
    \A i \in 1..Len(finished) :
        ~finished[i].success =>
            /\ finished[i].message # ""
            /\ "stage" \in DOMAIN finished[i]
            /\ finished[i].stage = error.stage

----------------------------------------------------------------------------
(* Properties of the label arrays (SpecGrid, SpecReshape, SpecPost) *)

RawGridMade == raw_array # 0 /\ pc \in {"A4_postprocess", "failed"}

\* C12: the raw label grid has the FeatureSet's shape (one cell for every
\* entry of valid_mask), holds at the i-th valid position the i-th k-means
\* assignment, an id in 0..k-1, and -9999 at every other position.
C12_RawGridFollowsMask ==
    RawGridMade =>
        LET g == arrays[raw_array] IN
        /\ features_shape # <<>> => g.shape = features_shape
        /\ Len(g.cells) = Len(valid_mask)
        /\ \A i \in 1..Len(valid_mask) :
              IF valid_mask[i]
              THEN /\ g.cells[i] = kmeans_labels[Rank(valid_mask, i)]
                   /\ g.cells[i] \in 0..(num_clusters - 1)
              ELSE g.cells[i] = NoData

LengthsDiffer ==
    \/ Len(kmeans_labels) # TrueCount(valid_mask)
    \/ Len(valid_mask) # target_shape[1] * target_shape[2]

\* C13: for every combination of lengths of the assignments, valid_mask and
\* the target shape, reshape_labels_safe does not fail, returns a grid of the
\* target shape, and logs a WARNING whenever it repaired a mismatch.
C13_MismatchTolerated ==
    pc # "R_call" =>
        /\ pc = "R_done"
        /\ arrays[raw_array].shape = target_shape
        /\ Len(arrays[raw_array].cells) = target_shape[1] * target_shape[2]
        /\ LengthsDiffer => \E e \in log : e.level = "WARNING"

\* C14: in clusters_raw.json the cluster_sizes of the ids 0..num_clusters-1
\* add up to total_pixels, the number of valid pixels.
C14_ClusterSizesSum ==
    raw_json # NoRawJson =>
        /\ DOMAIN raw_json.cluster_sizes = 0..(raw_json.num_clusters - 1)
        /\ raw_json.total_pixels = TrueCount(valid_mask)
        /\ Sum(raw_json.cluster_sizes, DOMAIN raw_json.cluster_sizes) = raw_json.total_pixels

\* C14 witness: clusters_raw.json of a grid with an invalid pixel and two
\* clusters that both have pixels.
C14_Witness ==
    /\ raw_json # NoRawJson
    /\ raw_json.total_pixels < Len(valid_mask)
    /\ raw_json.cluster_sizes[0] > 0
    /\ raw_json.cluster_sizes[1] > 1

Abs(x) == IF x < 0 THEN -x ELSE x

\* Cell j lies in the 3 x 3 window of cell i
Near(g, i, j) ==
    Abs(RowOf(g, i) - RowOf(g, j)) <= 1 /\ Abs(ColOf(g, i) - ColOf(g, j)) <= 1

Votes(g, i, v) == Cardinality({j \in Cells(g) : Near(g, i, j) /\ g.cells[j] = v})

NearLabels(g, i) == {g.cells[j] : j \in {x \in Cells(g) : Near(g, i, x)}} \ {NoData}

\* C17: the majority filter gives every pixel the most frequent label among
\* the non-sentinel values of its 3 x 3 window, positions outside the grid
\* counting as -9999; a pixel whose window holds only -9999 stays -9999.
C17_MajorityOfWindow ==
    pc = "P_majority" =>
        /\ arrays[post_array].shape = arg.shape
        /\ \A i \in Cells(arg) :
              LET out == arrays[post_array].cells[i] IN
              IF NearLabels(arg, i) = {} THEN out = NoData
              ELSE /\ out # NoData
                   /\ \A v \in NearLabels(arg, i) : Votes(arg, i, out) >= Votes(arg, i, v)

\* C17 witness: a pixel labeled 0 is outvoted by two neighbours labeled 1.
C17_Witness ==
    /\ pc = "P_majority"
    /\ \E i \in Cells(arg) :
          /\ arg.cells[i] = 0
          /\ arrays[post_array].cells[i] = 1
          /\ Votes(arg, i, 1) = 2

\* C18: the majority filter introduces no label: every output value is a
\* label of the pixel's 3 x 3 window in the input, or the sentinel, and the
\* sentinel only where the window holds no label.
C18_NoNewLabel ==
    pc = "P_majority" =>
        \A i \in Cells(arg) :
            /\ arrays[post_array].cells[i] \in NearLabels(arg, i) \cup {NoData}
            /\ arrays[post_array].cells[i] = NoData => NearLabels(arg, i) = {}

\* C18 witness: the grid holds a label, a pixel's window holds none, and the
\* pixel stays -9999.
C18_Witness ==
    /\ pc = "P_majority"
    /\ \E i, j \in Cells(arg) :
          /\ arg.cells[j] # NoData
          /\ NearLabels(arg, i) = {}
          /\ arrays[post_array].cells[i] = NoData

\* Two cells share an edge
EdgeNeighbours(g, i, j) ==
    Abs(RowOf(g, i) - RowOf(g, j)) + Abs(ColOf(g, i) - ColOf(g, j)) = 1

RegionClosed(g, S) ==
    \A i \in S, j \in Cells(g) : (g.cells[j] # NoData /\ EdgeNeighbours(g, i, j)) => j \in S

\* The connected component of the labeled cell i: the least set of labeled
\* cells that holds i and every labeled edge neighbour of its cells
RegionOf(g, i) ==
    CHOOSE C \in SUBSET Labeled(g) :
        /\ i \in C /\ RegionClosed(g, C)
        /\ \A S \in SUBSET Labeled(g) : (i \in S /\ RegionClosed(g, S)) => C \subseteq S

\* C19: remove_small_clusters takes the connected components of the labeled
\* cells, whatever their labels; every pixel of a component smaller than
\* min_area_pixels becomes -9999, every pixel of a component of at least
\* min_area_pixels keeps its label, sentinel pixels stay, no component grows.
C19_SmallRegionsRemoved ==
    pc = "P_removed" =>
        LET out == arrays[post_array] IN
        /\ out.shape = arg.shape
        /\ \A i \in Cells(arg) :
              IF arg.cells[i] = NoData THEN out.cells[i] = NoData
              ELSE IF Cardinality(RegionOf(arg, i)) < min_area_pixels
              THEN out.cells[i] = NoData
              ELSE out.cells[i] = arg.cells[i]
        /\ \A i \in Labeled(out) : RegionOf(out, i) \subseteq RegionOf(arg, i)

\* C19 witness: a component of one pixel is removed and a component of two
\* pixels with different labels is kept, with min_area_pixels 2.
C19_Witness ==
    /\ pc = "P_removed"
    /\ min_area_pixels = 2
    /\ \E i, j, k \in Cells(arg) :
          /\ arg.cells[i] # NoData /\ arrays[post_array].cells[i] = NoData
          /\ EdgeNeighbours(arg, j, k)
          /\ arrays[post_array].cells[j] = 0 /\ arrays[post_array].cells[k] = 1

\* C20: postprocessing leaves the raw grid as the cluster engine made it and
\* as clusters_raw.tif holds it; with postprocessing enabled the result is
\* another array, written to clusters_post.tif.
C20_RawGridUnchanged ==
    (raw_array # 0 /\ "clusters_raw.tif" \in DOMAIN tif) =>
        /\ arrays[raw_array] = tif["clusters_raw.tif"]
        /\ arrays[raw_array] = reshape_labels_safe(kmeans_labels, stack.shape, valid_mask).grid
        /\ (pc = "A5_statistics" /\ post_enabled) =>
              /\ post_array # raw_array
              /\ "clusters_post.tif" \in DOMAIN tif
              /\ tif["clusters_post.tif"] = arrays[post_array]

\* C20 witness: postprocessing changed the grid and both files are written.
C20_Witness ==
    /\ pc = "A5_statistics"
    /\ post_enabled
    /\ arrays[post_array] # arrays[raw_array]
    /\ tif["clusters_post.tif"] # tif["clusters_raw.tif"]

----------------------------------------------------------------------------
(* Properties of step A5 on label arrays (SpecGrid) *)

\* The statistics of the final label array have been computed
StatsComputed == pc = "A6_interpret" \/ (pc = "failed" /\ error.stage = "statistics")

\* C21: the statistics hold an entry for a cluster id of 0..num_clusters-1
\* exactly when a pixel of the final label array has that id; its pixel_count
\* is the number of those pixels and its percent_area is that number over the
\* number of non-sentinel pixels, times 100. Ids without a pixel have no entry.
C21_StatsSparse ==
    StatsComputed =>
        LET g == arrays[post_array]
            labeled == Cardinality({i \in Cells(g) : g.cells[i] # NoData})
        IN  /\ DOMAIN stats \subseteq 0..(num_clusters - 1)
            /\ \A c \in 0..(num_clusters - 1) :
                  LET n == Cardinality({i \in Cells(g) : g.cells[i] = c})
                  IN  /\ c \in DOMAIN stats <=> n >= 1
                      /\ c \in DOMAIN stats =>
                            /\ stats[c].pixel_count = n
                            /\ stats[c].percent_area.num = 100 * n
                            /\ stats[c].percent_area.den = labeled

\* C21 witness: after postprocessing one cluster id has lost all its pixels
\* and has no entry, while another cluster is reported.
C21_Witness ==
    /\ StatsComputed
    /\ post_enabled
    /\ \E c \in 0..(num_clusters - 1) :
          /\ c \notin DOMAIN stats
          /\ \E i \in Cells(arrays[raw_array]) : arrays[raw_array].cells[i] = c
    /\ DOMAIN stats # {}

\* The sum of the fractions f[c].percent_area.num / den over S, all of the
\* denominator den
PercentSum(f, S) == Sum([c \in S |-> f[c].percent_area.num], S)

\* C22: with a labeled pixel in the final label array, the percent_area of
\* the reported clusters add up to 100 and their pixel_count to the number of
\* non-sentinel pixels.
C22_PercentSumsTo100 ==
    (StatsComputed /\ \E i \in Cells(arrays[post_array]) : arrays[post_array].cells[i] # NoData) =>
        LET labeled == Cardinality({i \in Cells(arrays[post_array]) :
                                       arrays[post_array].cells[i] # NoData})
        IN  /\ \A c \in DOMAIN stats : stats[c].percent_area.den = labeled
            /\ PercentSum(stats, DOMAIN stats) = 100 * labeled
            /\ Sum([c \in DOMAIN stats |-> stats[c].pixel_count], DOMAIN stats) = labeled

\* C22 witness: two reported clusters and a sentinel pixel in the array.
C22_Witness ==
    /\ StatsComputed
    /\ Cardinality(DOMAIN stats) = 2
    /\ \E i \in Cells(arrays[post_array]) : arrays[post_array].cells[i] = NoData
    /\ \E c \in DOMAIN stats : stats[c].pixel_count >= 2

----------------------------------------------------------------------------
(* Properties of the interpretation report and the legend (Spec) *)

\* C23: the report names the method that was used: "LLM" exactly when the
\* mapping came from a successful remote call, "Rule-based" when the rule
\* table produced it (remote disabled, or remote failed and fell back).
C23_ReportNamesMethodUsed ==
    pc = "done" =>
        /\ report.method = "LLM" <=> interp_via = "llm"
        /\ interp_via \in {"rule", "fallback"} => report.method = "Rule-based"

\* The neutral gray of the legend
NeutralGray == "#808080"

\* C24: the legend has an entry for every cluster id of the final label grid,
\* with label, color and confidence; the color is the table color of the
\* label, and neutral gray for a cluster without an interpretation entry,
\* with a label outside the table, or labeled Unknown.
C24_LegendColors ==
    pc = "done" =>
        \A id \in labels_post.present :
            /\ id \in DOMAIN legend
            /\ DOMAIN legend[id] = {"label", "color", "confidence"}
            /\ legend[id].color =
                  IF id \in DOMAIN Effective(llm_result)
                     /\ legend[id].label \in Vocabulary \ {"Unknown"}
                  THEN get_color_for_label(legend[id].label)
                  ELSE NeutralGray
            /\ id \notin DOMAIN Effective(llm_result) => legend[id].label = ClusterName(id)

----------------------------------------------------------------------------
(* Properties of the order of the steps (Spec) *)

\* The stage a position of classify_python_kmeans belongs to: 1 resampling,
\* 2 feature calculation, 3 clustering, 4 postprocessing, 5 statistics,
\* 6 interpretation, 7 result assembly, 8 returned; 0 after a failure
StageOf(p) ==
    CASE p \in {"A1_resample", "A1_band"} -> 1
      [] p = "A2_features" -> 2
      [] p \in {"A3_prepare", "A3_kmeans"} -> 3
      [] p = "A4_postprocess" -> 4
      [] p = "A5_statistics" -> 5
      [] p = "A6_interpret" -> 6
      [] p = "A7_assemble" -> 7
      [] p = "done" -> 8
      [] OTHER -> 0

\* The files a stage writes
StageFiles(stage, enabled) ==
    CASE stage = 3 -> {"clusters_raw.tif", "clusters_raw.json"}
      [] stage = 4 -> IF enabled THEN {"clusters_post.tif"} ELSE {}
      [] stage = 5 -> {"clusters_stats.json"}
      [] stage = 7 -> {"interpreted_layer.tif", "interpretation_report.json", "legend.json"}
      [] OTHER -> {}

\* One step of a run keeps the order of the stages
StageStep ==
    /\ StageOf(pc') \in {0, StageOf(pc), StageOf(pc) + 1}
    /\ (files' \ files) \subseteq StageFiles(StageOf(pc), post_enabled')
    /\ StageOf(pc') = StageOf(pc) + 1 =>
          /\ StageFiles(StageOf(pc), post_enabled') \subseteq files'
          /\ \A st \in 1..StageOf(pc) : StageFiles(st, post_enabled') \subseteq files'
          /\ \A st \in StageOf(pc')..8 : StageFiles(st, TRUE) \cap files' = {}
    /\ StageOf(pc') >= 5 => ("clusters_post.tif" \in files' <=> post_enabled')

\* C25: the stages run one after another in the order resampling, feature
\* calculation, clustering, postprocessing, statistics, interpretation,
\* result assembly; a stage starts only when the files of all earlier stages
\* are written and none of a later one is; clusters_post.tif is written
\* exactly when postprocessing is enabled.
C25_StagesInOrder == [][StageStep]_vars

\* C25 witness: a run with postprocessing has returned with all its files.
C25_Witness ==
    /\ pc = "done"
    /\ post_enabled
    /\ files = {"clusters_raw.tif", "clusters_raw.json", "clusters_post.tif",
                "clusters_stats.json", "interpreted_layer.tif",
                "interpretation_report.json", "legend.json"}

----------------------------------------------------------------------------
(* Properties of the remote request (Spec) *)

\* C26: a run sends at most one request to the remote backend: a request
\* that failed is not sent again and the rule table takes over, and no
\* request is sent when the configuration does not enable the remote
\* interpreter.
C26_SingleAttempt ==
    /\ requests <= 1
    /\ requests = 1 => (llm_config.enabled /\ StageOf(pc) \notin 1..6)
    /\ (interp_via = "fallback" /\ response # NoResponse) => requests = 1
    /\ (StageOf(pc) \in {7, 8} /\ ~llm_config.enabled) => requests = 0

\* C26 witness: the one request timed out and the rule table interpreted
\* the clusters.
C26_Witness ==
    /\ pc = "done"
    /\ llm_config.enabled
    /\ response.kind = "timeout"
    /\ interp_via = "fallback"
    /\ requests = 1
    /\ DOMAIN Effective(llm_result) # {}

----------------------------------------------------------------------------
(* Properties of two runs in one process (SpecRuns) *)

\* C27: two runs in one process share no mutable resource: under every
\* interleaving a run reads only the temporary files it wrote itself, and
\* its bands are those of its own ROI, as when it runs alone.
C27_RunsIsolated ==
    \A run \in RunIds :
        \A code \in DOMAIN runs[run].read :
            runs[run].read[code] = [by |-> run, extent |-> RunExtent(run)]

----------------------------------------------------------------------------
(* Properties of the parsing of the response (SpecInterp) *)

\* The position of the brace that closes the one opened at or after i
RECURSIVE CloseOf(_, _, _)
CloseOf(s, i, depth) ==
    IF i > Len(s) THEN 0
    ELSE IF s[i] = "{" THEN CloseOf(s, i + 1, depth + 1)
    ELSE IF s[i] = "}" THEN (IF depth = 1 THEN i ELSE CloseOf(s, i + 1, depth - 1))
    ELSE CloseOf(s, i + 1, depth)

\* The first balanced-brace substring of a text, <<>> without one
FirstBalanced(s) ==
    IF Opens(s) = {} \/ CloseOf(s, Min(Opens(s)), 0) = 0 THEN <<>>
    ELSE SubSeq(s, Min(Opens(s)), CloseOf(s, Min(Opens(s)), 0))

\* C28: when the first balanced-brace substring of the response is a JSON
\* object, as it stands or after the repair of single quotes and trailing
\* commas, the interpretation is that object and not the rule-based
\* fallback, also when text with braces follows the object.
C28_FirstObjectParsedWithRepair ==
    (Interpreted /\ requests = 1 /\ response.kind = "text") =>
        LET first == FirstBalanced(response.text)
            parsed == IF JsonLoads(first).ok THEN JsonLoads(first)
                      ELSE JsonLoads(fix_json(first))
        IN  (first # <<>> /\ parsed.ok) =>
               /\ interp_via = "llm"
               /\ llm_result.value = parsed.val

----------------------------------------------------------------------------
(* Properties of the indices at one pixel (SpecIndex) *)

\* The value of a quotient is 0
IsZero(q) == q.masked \/ q.num = 0

\* The value of a quotient lies in [-1, 1]: |num| <= |den + 1e-10|
InUnitRange(q) ==
    \/ IsZero(q)
    \/ q.den >= 0 /\ Abs(q.num) <= q.den
    \/ q.den < 0 /\ Abs(q.num) < 0 - q.den

\* C29: each index is 0 at a pixel where the sum of its two bands is exactly
\* 0, and lies in [-1, 1] at a pixel whose two band values are not negative.
C29_IndexZeroAndBounded ==
    pc = "I_done" =>
        /\ DOMAIN index_px = {n \in Indices : IndexWanted(pixels, n)}
        /\ \A n \in DOMAIN index_px :
              LET a == pixels[IndexBands(n)[1]]
                  b == pixels[IndexBands(n)[2]]
              IN  /\ a + b = 0 => IsZero(index_px[n])
                  /\ (a >= 0 /\ b >= 0) => InUnitRange(index_px[n])
                  /\ ~index_px[n].masked =>
                        (index_px[n].num = a - b /\ index_px[n].den = a + b)

\* C29 witness: at one pixel NDVI has a zero denominator with opposite band
\* values, and MNDWI reaches 1 on non-negative bands.
C29_Witness ==
    /\ pc = "I_done"
    /\ DOMAIN pixels = {"B3", "B4", "B8", "B11"}
    /\ pixels["B8"] = 1 /\ pixels["B4"] = -1
    /\ index_px["NDVI"].masked
    /\ pixels["B3"] = 2 /\ pixels["B11"] = 0
    /\ index_px["MNDWI"].num = index_px["MNDWI"].den

----------------------------------------------------------------------------
(* Properties of the worker (SpecWorkerFair) *)

\* finished was emitted at most once, at the end of run, and with success
\* only after a result and no exception
WorkerSafe ==
    /\ Len(finished) <= 1
    /\ Len(finished) = 1 <=> pc = "W_end"
    /\ \A i \in 1..Len(finished) :
          finished[i].success =>
             /\ error = NoError
             /\ classification_result.returned = "dict"

\* C30: in every run of the worker, whatever the classification, the styling
\* and the adding to the map do, finished is emitted exactly once, and with
\* success only if no step raised and a result was obtained.
C30_FinishedExactlyOnce == [](WorkerSafe) /\ <>(pc = "W_end" /\ Len(finished) = 1)

\* C30 witness: the layer could not be added to the map after a classification
\* and a styling that worked, and finished(False, ...) was emitted.
C30_Witness ==
    /\ pc = "W_end"
    /\ error = Fail("add_to_map", "RuntimeError")
    /\ classification_result = [returned |-> "dict", layer |-> TRUE, llm_result |-> TRUE]
    /\ finished = <<[success |-> FALSE, message |-> "RuntimeError"]>>

====
